---- MODULE Spec2Model ----
(***************************************************************************)
(* Model of the MarketLogger streaming pipeline.                           *)
(*                                                                         *)
(* Two programs are built from the sources:                                *)
(*   - the ticker application  (src/src/app.js, TickerService,             *)
(*     StockCommands, the ScheduledAuth revision that restarts the ticker) *)
(*   - the tracker application (TokenTrackerService, the ScheduledAuth of  *)
(*     src/src/services/scheduled-auth.service.js, AutoLogin).             *)
(* Each has its own specifications over its own variables.  The tick      *)
(* processing and the alert rules of the tracker, and its publisher over   *)
(* snapshots of several pages, have specifications of their own, as have   *)
(* the tick feed of the ticker and the binary parser of both services.     *)
(*                                                                         *)
(* One action is one turn of the node event loop: an event handler or a    *)
(* timer callback together with the promise continuations that run before  *)
(* the loop takes the next event.  An await on I/O or on a timer ends the  *)
(* action; the continuation is another action.                             *)
(***************************************************************************)
EXTENDS Integers, Sequences, FiniteSets, TLC

VARIABLES
  \* ---- ticker application
  ticker,            \* the TickerService singleton's fields
  tkSockets,         \* every WebSocket the service created, oldest first
  tkReconnectTimers, \* pending setTimeout callbacks of attemptReconnect
  tkLoading,         \* initialize() calls that have not reached connectWebSocket
  tkStartTimers,     \* pending setTimeout(startDiscordUpdates, 2000)
  tkIntervals,       \* live setInterval timers of startDiscordUpdates
  tkCycles,          \* updateDiscordMessage invocations that have not returned
  tkAddPending,      \* tokens of addStock calls in their 500 ms pause
  tkAuthPc,          \* position of performAutoLogin (and of the restart() it awaits)
  subsFile,          \* subscriptions.json
  subscribedStocks,  \* marketData.subscribedStocks
  tkHist             \* observations of the run (not program state):
                     \* closeTokens holds the token list subscribed when the
                     \* connected session last lost its transport, until
                     \* the next registry command; removed the symbols
                     \* removeStock purged that were not added since;
                     \* written and result the outcome of the file write
                     \* and the return value of the last command

VARIABLES
  \* ---- tracker application
  tracker,           \* the TokenTrackerService singleton's fields
  trSockets,         \* every WebSocket the service created, oldest first
  trProc,            \* position of start() ("boot") and of the cron callback
  trStartTimers,     \* pending setTimeout(startDiscordUpdates, 2000)
  trIntervals,       \* live setInterval timers of startDiscordUpdates
  trCycles,          \* updateDiscordMessages invocations that have not returned
  accessToken,       \* process.env.ZERODHA_ACCESS_TOKEN: 0 the token the process
                     \* started with, n the token of the n-th successful login
  zerodhaConnected,  \* zerodhaService.isConnected
  tokenFile,         \* token.json
  trHist             \* observations of the run (not program state):
                     \* dropped: the open session lost its transport and no
                     \* socket opened and no stop() was called since;
                     \* persists: access tokens saved; stops: calls of stop();
                     \* last: the last finished performAutoLogin run;
                     \* lastClean: the updateDiscordMessages call that
                     \* returned last made no send or edit that failed;
                     \* stopped: stop() has returned and initialize() was
                     \* not entered since

VARIABLES
  \* ---- tracker application: the snapshot and the alert rules
  stockData,         \* tracker.stockData: token -> entry of its latest tick
  previousData,      \* tracker.previousData
  now,               \* the clock that new Date() reads, in ms
  alertChannel,      \* whether the channel cache holds the alert channel
  alChecks,          \* checkForAlerts calls awaiting the send of an alert
  alHist             \* observations (not program state): ticks received;
                     \* the last frame, the clearing stop() included, with
                     \* the checks it invoked; the checks that returned in
                     \* the last step; per token the ticks applied since the
                     \* snapshot was cleared, counted up to two

VARIABLES
  \* ---- parseBinaryTicks of either service
  buffer,            \* the bytes of the binary message handed to the parser
  parsed,            \* the call's outcome: by names the service whose
                     \* parser ran ("none" before), packets is the array
                     \* returned, caught whether the catch was entered
  pbSent             \* observation (not program state): the frame as the
                     \* server encoded it and the bytes of it that arrived

tkVars == <<ticker, tkSockets, tkReconnectTimers, tkLoading, tkStartTimers,
            tkIntervals, tkCycles, tkAddPending, tkAuthPc, subsFile,
            subscribedStocks, tkHist>>

trVars == <<tracker, trSockets, trProc, trStartTimers, trIntervals, trCycles,
            accessToken, zerodhaConnected, tokenFile, trHist>>

alVars == <<stockData, previousData, now, alertChannel, alChecks, alHist>>

pbVars == <<buffer, parsed, pbSent>>

vars == <<tkVars, trVars, alVars, pbVars>>

----------------------------------------------------------------------------
(* Bounds of the model *)

MaxSockets == 1        \* WebSockets taking part at one time
MaxCommands == 2       \* subscribe / unsubscribe commands of one run
MaxRotations == 1      \* performAutoLogin runs of one run
MaxCycles == 2         \* publish cycles of one service in flight at once

(* Program constants *)

maxReconnectAttempts == 10

(* The instrument catalog: symbol -> token.  "NSE:X" is not listed. *)
Symbols == {"NSE:A", "NSE:B", "NSE:X"}
CatalogSymbols == {"NSE:A", "NSE:B"}
instrumentsCache == [s \in CatalogSymbols |-> IF s = "NSE:A" THEN 101 ELSE 102]

InitialSubscriptions == <<"NSE:A">>

\* what tkHist.result holds before the first command has returned
NoResult == [success |-> FALSE, message |-> "none"]

----------------------------------------------------------------------------
(* Sequences *)

Range(q) == {q[i] : i \in 1..Len(q)}

Includes(q, x) == x \in Range(q)

\* Array.prototype.indexOf, 1-based; 0 when absent
IndexOf(q, x) ==
  IF Includes(q, x) THEN CHOOSE i \in 1..Len(q) : q[i] = x /\ \A j \in 1..(i-1) : q[j] # x
  ELSE 0

\* a is an initial segment of b
IsPrefix(a, b) == Len(a) <= Len(b) /\ a = SubSeq(b, 1, Len(a))

\* Array.prototype.splice(index, 1)
Splice(q, i) == [j \in 1..(Len(q)-1) |-> IF j < i THEN q[j] ELSE q[j+1]]

----------------------------------------------------------------------------
(* TickerService: the WebSocket objects                                    *)
(*                                                                         *)
(* A socket record: st is the transport state, by the caller whose         *)
(* connectWebSocket promise it settles ("app" and "restart" are the two    *)
(* callers of initialize(), "reconnect" the timer of attemptReconnect), pc *)
(* the position of that caller's chain, toks the token list the chain      *)
(* captured in subscribeToStocks, frames the control frames the server     *)
(* received on this socket, ticks the tokens of the tick frames the server  *)
(* has sent on it that have not arrived yet.                               *)

NewSocket(by) ==
  [st |-> "connecting", by |-> by, pc |-> "await", toks |-> <<>>, frames |-> <<>>,
   ticks |-> {}]

Frame(a, v) == [a |-> a, v |-> v]

\* ws.send delivers on an open socket only
Delivered(socks, w, frame) ==
  IF w # 0 /\ socks[w].st = "open"
  THEN [socks EXCEPT ![w].frames = Append(@, frame)]
  ELSE socks

\* this.ws.send throws on null and on a socket that is still connecting
SendThrows(socks, w) == w = 0 \/ socks[w].st \in {"connecting", "aborted"}

\* on a socket that is closing or closed the frame is dropped; whether send
\* also throws depends on the ws release in use
SendMayThrow(socks, w) == w # 0 /\ socks[w].st \in {"closing", "closed"}

\* the outcomes of one this.ws.send: TRUE = returned, FALSE = threw
SendOutcomes(socks, w) ==
  IF SendThrows(socks, w) THEN {FALSE}
  ELSE IF SendMayThrow(socks, w) THEN {TRUE, FALSE}
  ELSE {TRUE}

\* A closed socket whose caller's chain has ended and that this.ws no longer
\* refers to takes no further part: no event fires on it and nobody sends
\* on it.
Inert(socks, w, i) ==
  i # w /\ socks[i].st = "closed" /\ socks[i].pc \in {"done", "ended", "hung"}

Kept(socks, w) == {i \in DOMAIN socks : ~Inert(socks, w, i)}

\* the sockets still taking part, oldest first, and this.ws among them
Collect(t, socks) ==
  LET kept == Kept(socks, t.ws)
      pos(i) == Cardinality({j \in kept : j <= i})
      at(k) == CHOOSE i \in kept : pos(i) = k
  IN  [t |-> [t EXCEPT !.ws = IF @ = 0 THEN 0 ELSE pos(@)],
       socks |-> [k \in 1..Cardinality(kept) |-> socks[at(k)]]]

\* the sockets whose transport is not closed or whose caller still waits
Active(socks) ==
  Cardinality({i \in DOMAIN socks :
                 socks[i].st # "closed" \/ socks[i].pc \in {"await", "subpause"}})

\* the service fields and the sockets an action leaves behind
Commit(t, socks) ==
  /\ ticker' = Collect(t, socks).t
  /\ tkSockets' = Collect(t, socks).socks

\* subscribeToStocks: the tokens of the file's symbols found in the catalog
FileTokens(subs) ==
  LET found == SelectSeq(subs, LAMBDA s : s \in DOMAIN instrumentsCache)
  IN  [i \in 1..Len(found) |-> instrumentsCache[found[i]]]

----------------------------------------------------------------------------
(* TickerService: initial state (constructor) *)

TickerInit ==
  /\ ticker = [ws |-> 0, subscribedTokens |-> <<>>, stockData |-> {},
               tickerMessage |-> FALSE, updateInterval |-> FALSE,
               isConnected |-> FALSE, reconnectAttempts |-> 0,
               subscriptionConfirmed |-> FALSE]
  /\ tkSockets = <<>>
  /\ tkReconnectTimers = 0
  /\ tkLoading = {}
  /\ tkStartTimers = 0
  /\ tkIntervals = 0
  /\ tkCycles = <<>>
  /\ tkAddPending = {}
  /\ tkAuthPc = "idle"
  /\ subsFile = InitialSubscriptions
  /\ subscribedStocks = InitialSubscriptions
  /\ tkHist = [started |-> FALSE, stopped |-> "no", gaveUp |-> FALSE,
               commands |-> 0, rotations |-> 0, closeTokens |-> {},
               removed |-> {}, written |-> TRUE, result |-> NoResult]

----------------------------------------------------------------------------
(* TickerService: pieces of handlers *)

\* attemptReconnect without its check of maxReconnectAttempts
AttemptReconnectUncapped(t, timers) ==
  [t |-> [t EXCEPT !.reconnectAttempts = @ + 1], timers |-> timers + 1,
   gaveUp |-> FALSE]

\* attemptReconnect
AttemptReconnect(t, timers) ==
  IF t.reconnectAttempts >= maxReconnectAttempts
  THEN [t |-> t, timers |-> timers, gaveUp |-> TRUE]
  ELSE [t |-> [t EXCEPT !.reconnectAttempts = @ + 1], timers |-> timers + 1,
        gaveUp |-> FALSE]

\* the 'close' handler of connectWebSocket
OnClose(t, timers) ==
  AttemptReconnect([t EXCEPT !.isConnected = FALSE,
                             !.subscriptionConfirmed = FALSE], timers)

\* stop(), on the service fields
StopFields(t) ==
  [t EXCEPT !.updateInterval = FALSE, !.isConnected = FALSE,
            !.subscriptionConfirmed = FALSE, !.tickerMessage = FALSE,
            !.stockData = {}]

\* stop(), on the sockets: this.ws.close() when connected
StopSockets(t, socks) ==
  IF t.ws # 0 /\ t.isConnected
  THEN [socks EXCEPT ![t.ws].st =
          IF @ = "open" THEN "closing"
          ELSE IF @ = "connecting" THEN "aborted" ELSE @]
  ELSE socks

\* stop(), on the interval timers: clearInterval(this.updateInterval)
StopIntervals(t, n) == IF t.updateInterval THEN n - 1 ELSE n

\* the end of a caller's chain: initialize() arms the publish timer when no
\* step threw; restart() returns to performAutoLogin either way
ChainEnd(by, ok) ==
  /\ tkStartTimers' = IF ok /\ by \in {"app", "restart"}
                      THEN tkStartTimers + 1 ELSE tkStartTimers
  /\ tkAuthPc' = IF by = "restart" THEN "idle" ELSE tkAuthPc

----------------------------------------------------------------------------
(* TickerService: actions *)

\* app.js start(): the ticker is initialized when the broker profile call
\* succeeded and the registry is not empty
AppStart(connected) ==
  /\ ~tkHist.started
  /\ tkHist' = [tkHist EXCEPT !.started = TRUE]
  /\ tkLoading' = IF connected /\ Len(subscribedStocks) > 0
                  THEN tkLoading \cup {"app"} ELSE tkLoading
  /\ UNCHANGED <<trVars, alVars, pbVars, tkCycles, ticker, tkSockets, tkReconnectTimers, tkStartTimers, tkIntervals,
                 tkAddPending, tkAuthPc, subsFile, subscribedStocks>>

\* initialize(): waitForDiscordReady and loadInstruments returned;
\* connectWebSocket creates the socket and awaits its open
TkInitConnect(by) ==
  /\ by \in tkLoading
  /\ Active(tkSockets) < MaxSockets
  /\ tkLoading' = tkLoading \ {by}
  /\ Commit([ticker EXCEPT !.ws = Len(tkSockets) + 1],
            Append(tkSockets, NewSocket(by)))
  /\ UNCHANGED <<trVars, alVars, pbVars, tkCycles, tkReconnectTimers, tkStartTimers, tkIntervals, tkAddPending,
                 tkAuthPc, subsFile, subscribedStocks, tkHist>>

\* initialize(): loadInstruments threw; the catch of initialize() logs it
TkInitLoadFails(by) ==
  /\ by \in tkLoading
  /\ tkLoading' = tkLoading \ {by}
  /\ ChainEnd(by, FALSE)
  /\ UNCHANGED <<trVars, alVars, pbVars, tkCycles, ticker, tkSockets, tkReconnectTimers, tkIntervals, tkAddPending,
                 subsFile, subscribedStocks, tkHist>>

\* 'open' of socket s, then the continuation of the caller awaiting it:
\* waitForConnection resolves at once and subscribeToStocks runs up to its
\* 1 s pause
TkSockOpen(s) ==
  /\ tkSockets[s].st = "connecting"
  /\ LET t1 == [ticker EXCEPT !.isConnected = TRUE, !.reconnectAttempts = 0]
         so == [tkSockets EXCEPT ![s].st = "open"]
         toks == FileTokens(subsFile)
         by == tkSockets[s].by
     IN  IF tkSockets[s].pc # "await"
         THEN \* the promise was rejected by the 10 s timeout: nobody waits
              /\ Commit(t1, so)
              /\ UNCHANGED <<tkStartTimers, tkAuthPc>>
         ELSE IF Len(toks) = 0
         THEN \* nothing to subscribe: subscribeToStocks returns
              /\ Commit(t1, [so EXCEPT ![s].pc = "done"])
              /\ ChainEnd(by, TRUE)
         ELSE \E ok \in SendOutcomes(so, t1.ws) :
              LET t2 == [t1 EXCEPT !.subscribedTokens = toks] IN
              IF ok
              THEN /\ Commit(t2, [Delivered(so, t1.ws, Frame("subscribe", toks))
                                    EXCEPT ![s].pc = "subpause", ![s].toks = toks])
                   /\ UNCHANGED <<tkStartTimers, tkAuthPc>>
              ELSE /\ Commit(t2, [so EXCEPT ![s].pc = "ended"])
                   /\ ChainEnd(by, FALSE)
  /\ UNCHANGED <<trVars, alVars, pbVars, tkCycles, tkReconnectTimers, tkLoading, tkIntervals, tkAddPending,
                 subsFile, subscribedStocks, tkHist>>

\* subscribeToStocks after its 1 s pause: the mode frame goes to this.ws
TkSendMode(s) ==
  /\ tkSockets[s].pc = "subpause"
  /\ \E ok \in SendOutcomes(tkSockets, ticker.ws) :
       /\ Commit(ticker,
            [Delivered(tkSockets, ticker.ws, Frame("mode", tkSockets[s].toks))
               EXCEPT ![s].pc = IF ok THEN "done" ELSE "ended"])
       /\ ChainEnd(tkSockets[s].by, ok)
  /\ UNCHANGED <<trVars, alVars, pbVars, tkCycles, tkReconnectTimers, tkLoading, tkIntervals, tkAddPending,
                 subsFile, subscribedStocks, tkHist>>

\* the 10 s timer of connectWebSocket rejects the promise; the socket is
\* left as it is
TkConnectTimeout(s) ==
  /\ tkSockets[s].st \in {"connecting", "aborted"}
  /\ tkSockets[s].pc = "await"
  /\ Commit(ticker, [tkSockets EXCEPT ![s].pc = "ended"])
  /\ ChainEnd(tkSockets[s].by, FALSE)
  /\ UNCHANGED <<trVars, alVars, pbVars, tkCycles, tkReconnectTimers, tkLoading, tkIntervals, tkAddPending,
                 subsFile, subscribedStocks, tkHist>>

\* the handshake of socket s fails: 'error', then 'close'
TkSockFails(s) ==
  /\ tkSockets[s].st \in {"connecting", "aborted"}
  /\ LET rejects == ~ticker.isConnected /\ tkSockets[s].pc = "await"
         r == OnClose(ticker, tkReconnectTimers)
     IN  /\ Commit(r.t, [tkSockets EXCEPT ![s].st = "closed",
                            ![s].pc = IF rejects THEN "ended"
                                      ELSE IF @ = "await" THEN "hung" ELSE @])
         /\ tkReconnectTimers' = r.timers
         /\ tkHist' = [tkHist EXCEPT !.gaveUp = @ \/ r.gaveUp]
         /\ IF rejects THEN ChainEnd(tkSockets[s].by, FALSE)
            ELSE UNCHANGED <<tkStartTimers, tkAuthPc>>
  /\ UNCHANGED <<trVars, alVars, pbVars, tkCycles, tkLoading, tkIntervals, tkAddPending, subsFile, subscribedStocks>>

\* the transport of an open socket closes (server or network), or the close
\* that stop() asked for completes: 'close'
TkSockCloses(s) ==
  /\ tkSockets[s].st \in {"open", "closing"}
  /\ LET r == OnClose(ticker, tkReconnectTimers)
     IN  /\ Commit(r.t, [tkSockets EXCEPT ![s].st = "closed"])
         /\ tkReconnectTimers' = r.timers
         /\ tkHist' = [tkHist EXCEPT
                         !.gaveUp = @ \/ r.gaveUp,
                         !.closeTokens =
                            IF /\ s = ticker.ws /\ ticker.isConnected
                               /\ tkSockets[s].st = "open" /\ tkSockets[s].pc = "done"
                            THEN {ticker.subscribedTokens} ELSE @]
  /\ UNCHANGED <<trVars, alVars, pbVars, tkCycles, tkLoading, tkStartTimers, tkIntervals, tkAddPending, tkAuthPc,
                 subsFile, subscribedStocks>>

\* the timer of attemptReconnect fires: connectWebSocket
TkReconnectFires ==
  /\ tkReconnectTimers > 0
  /\ Active(tkSockets) < MaxSockets
  /\ tkReconnectTimers' = tkReconnectTimers - 1
  /\ Commit([ticker EXCEPT !.ws = Len(tkSockets) + 1],
            Append(tkSockets, NewSocket("reconnect")))
  /\ UNCHANGED <<trVars, alVars, pbVars, tkCycles, tkLoading, tkStartTimers, tkIntervals, tkAddPending, tkAuthPc,
                 subsFile, subscribedStocks, tkHist>>

\* the 2 s timer of initialize() fires: startDiscordUpdates
TkStartDiscordUpdates ==
  /\ tkStartTimers > 0
  /\ tkStartTimers' = tkStartTimers - 1
  /\ tkIntervals' = tkIntervals + 1
  /\ ticker' = [ticker EXCEPT !.updateInterval = TRUE]
  /\ UNCHANGED <<trVars, alVars, pbVars, tkCycles, tkSockets, tkReconnectTimers, tkLoading, tkAddPending, tkAuthPc,
                 subsFile, subscribedStocks, tkHist>>

\* an updateDiscordMessage whose catch gives up publishing
SettledGivingUp(t, pc, ok) ==
  [t EXCEPT !.tickerMessage = IF ~ok THEN FALSE
                              ELSE IF pc = "send" THEN TRUE ELSE @,
            !.updateInterval = @ /\ ok]

\* updateDiscordMessage after its await: a send that returned stores the
\* handle, an edit that returned changes nothing, and the catch clears the
\* handle
Settled(t, pc, ok) ==
  [t EXCEPT !.tickerMessage = IF ~ok THEN FALSE
                              ELSE IF pc = "send" THEN TRUE ELSE @]

\* a 3 s interval fires: updateDiscordMessage formats the message and
\* awaits the send, or the edit of the stored handle.  The Discord client
\* is ready and its cache holds the ticker channel.
TkIntervalFires ==
  /\ tkIntervals > 0
  /\ Len(tkCycles) < MaxCycles
  /\ tkCycles' = Append(tkCycles, IF ticker.tickerMessage THEN "edit" ELSE "send")
  /\ UNCHANGED <<trVars, alVars, pbVars, ticker, tkSockets, tkReconnectTimers, tkLoading,
                 tkStartTimers, tkIntervals, tkAddPending, tkAuthPc, subsFile,
                 subscribedStocks, tkHist>>

\* the await of cycle i settles
TkCycleStep(i, ok) ==
  /\ i \in DOMAIN tkCycles
  /\ ticker' = Settled(ticker, tkCycles[i], ok)
  /\ tkCycles' = Splice(tkCycles, i)
  /\ UNCHANGED <<trVars, alVars, pbVars, tkSockets, tkReconnectTimers, tkLoading,
                 tkStartTimers, tkIntervals, tkAddPending, tkAuthPc, subsFile,
                 subscribedStocks, tkHist>>

\* stop(), called by the SIGTERM / SIGINT handlers of app.js
TkStop ==
  /\ tkHist.started
  /\ tkHist.stopped = "no"
  /\ Commit(StopFields(ticker), StopSockets(ticker, tkSockets))
  /\ tkIntervals' = StopIntervals(ticker, tkIntervals)
  /\ tkHist' = [tkHist EXCEPT !.stopped = IF ticker.isConnected THEN "connected"
                                            ELSE "disconnected"]
  /\ UNCHANGED <<trVars, alVars, pbVars, tkCycles, tkReconnectTimers, tkLoading, tkStartTimers, tkAddPending,
                 tkAuthPc, subsFile, subscribedStocks>>

----------------------------------------------------------------------------
(* ScheduledAuth of the ticker application (the revision whose             *)
(* performAutoLogin awaits ticker.restart())                               *)

\* the cron callback or checkAndRefreshOnStartup calls performAutoLogin,
\* which logs and awaits autoLogin.login()
TkPerformAutoLogin ==
  /\ tkHist.started
  /\ tkAuthPc = "idle"
  /\ tkHist.rotations < MaxRotations
  /\ tkAuthPc' = "login"
  /\ tkHist' = [tkHist EXCEPT !.rotations = @ + 1]
  /\ UNCHANGED <<trVars, alVars, pbVars, tkCycles, ticker, tkSockets, tkReconnectTimers, tkLoading, tkStartTimers,
                 tkIntervals, tkAddPending, subsFile, subscribedStocks>>

\* login() returned: on success performAutoLogin awaits
\* zerodhaService.initialize(), on failure it logs and returns
TkLoginReturns(success) ==
  /\ tkAuthPc = "login"
  /\ tkAuthPc' = IF success THEN "validate" ELSE "idle"
  /\ UNCHANGED <<trVars, alVars, pbVars, tkCycles, ticker, tkSockets, tkReconnectTimers, tkLoading, tkStartTimers,
                 tkIntervals, tkAddPending, subsFile, subscribedStocks, tkHist>>

\* restart() up to its 2 s pause: stop(), then the counters are reset
RestartFields(t) ==
  [StopFields(t) EXCEPT !.reconnectAttempts = 0, !.subscriptionConfirmed = FALSE]

\* zerodhaService.initialize() returned: ticker.restart() runs to its pause
TkRestart ==
  /\ tkAuthPc = "validate"
  /\ tkAuthPc' = "restartPause"
  /\ Commit(RestartFields(ticker), StopSockets(ticker, tkSockets))
  /\ tkIntervals' = StopIntervals(ticker, tkIntervals)
  /\ tkHist' = [tkHist EXCEPT !.stopped = "no"]
  /\ UNCHANGED <<trVars, alVars, pbVars, tkCycles, tkReconnectTimers, tkLoading, tkStartTimers, tkAddPending,
                 subsFile, subscribedStocks>>

\* restart() after its pause: initialize() is called and awaited
TkRestartInitialize ==
  /\ tkAuthPc = "restartPause"
  /\ tkAuthPc' = "restartInit"
  /\ tkLoading' = tkLoading \cup {"restart"}
  /\ UNCHANGED <<trVars, alVars, pbVars, tkCycles, ticker, tkSockets, tkReconnectTimers, tkStartTimers, tkIntervals,
                 tkAddPending, subsFile, subscribedStocks, tkHist>>

----------------------------------------------------------------------------
(* StockCommands and TickerService.addStock / removeStock *)

\* the value subscribeStock and unsubscribeStock return once the symbol has
\* passed the membership test
Result(symbol) == [success |-> TRUE, symbol |-> symbol]

\* saveSubscriptions: the write may fail; the catch logs and returns
SaveSubscriptions(file, stocks, written) == IF written THEN stocks ELSE file

\* addStock without its test of subscribedTokens
AddStockUnchecked(t, socks, symbol, sendOk) ==
  IF symbol \notin DOMAIN instrumentsCache
  THEN [t |-> t, socks |-> socks, paused |-> FALSE, returned |-> FALSE]
  ELSE [t |-> [t EXCEPT !.subscribedTokens = Append(@, instrumentsCache[symbol])],
        socks |-> socks, paused |-> FALSE, returned |-> TRUE]

\* addStock up to its 500 ms pause.  Result: the fields, the sockets,
\* whether the call reached the pause, and the value returned by a call that
\* did not reach it.
AddStock(t, socks, symbol, sendOk) ==
  IF symbol \notin DOMAIN instrumentsCache
  THEN [t |-> t, socks |-> socks, paused |-> FALSE, returned |-> FALSE]
  ELSE LET token == instrumentsCache[symbol] IN
       IF Includes(t.subscribedTokens, token)
       THEN [t |-> t, socks |-> socks, paused |-> FALSE, returned |-> TRUE]
       ELSE LET t1 == [t EXCEPT !.subscribedTokens = Append(@, token)] IN
            IF ~t.isConnected
            THEN [t |-> t1, socks |-> socks, paused |-> FALSE, returned |-> TRUE]
            ELSE IF sendOk
            THEN [t |-> t1,
                  socks |-> Delivered(socks, t.ws, Frame("subscribe", <<token>>)),
                  paused |-> TRUE, returned |-> TRUE]
            ELSE [t |-> t1, socks |-> socks, paused |-> FALSE, returned |-> FALSE]

\* removeStock
RemoveStock(t, socks, symbol, sendOk) ==
  IF symbol \notin DOMAIN instrumentsCache
  THEN [t |-> t, socks |-> socks]
  ELSE LET token == instrumentsCache[symbol]
           index == IndexOf(t.subscribedTokens, token) IN
       IF index = 0
       THEN [t |-> t, socks |-> socks]
       ELSE LET t1 == [t EXCEPT !.subscribedTokens = Splice(@, index)] IN
            IF ~t.isConnected
            THEN [t |-> [t1 EXCEPT !.stockData = @ \ {symbol}], socks |-> socks]
            ELSE IF sendOk
            THEN [t |-> [t1 EXCEPT !.stockData = @ \ {symbol}],
                  socks |-> Delivered(socks, t.ws, Frame("unsubscribe", <<token>>))]
            ELSE [t |-> t1, socks |-> socks]

\* removeStock returns true for a symbol whose token was in the list
RemovedTracked(t, symbol, sendOk) ==
  /\ symbol \in DOMAIN instrumentsCache
  /\ Includes(t.subscribedTokens, instrumentsCache[symbol])
  /\ sendOk

\* subscribeStock(symbol)
SubscribeStock(symbol, written) ==
  /\ tkHist.started
  /\ tkHist.commands < MaxCommands
  /\ ~Includes(subscribedStocks, symbol)
  /\ subscribedStocks' = Append(subscribedStocks, symbol)
  /\ subsFile' = SaveSubscriptions(subsFile, subscribedStocks', written)
  /\ tkHist' = [tkHist EXCEPT !.commands = @ + 1, !.closeTokens = {},
                              !.removed = @ \ {symbol},
                              !.written = written, !.result = Result(symbol)]
  /\ IF ticker.isConnected
     THEN \E sendOk \in SendOutcomes(tkSockets, ticker.ws) :
            LET r == AddStock(ticker, tkSockets, symbol, sendOk) IN
            /\ Commit(r.t, r.socks)
            /\ tkAddPending' = IF r.paused
                               THEN tkAddPending \cup {instrumentsCache[symbol]}
                               ELSE tkAddPending
     ELSE UNCHANGED <<ticker, tkSockets, tkAddPending>>
  /\ UNCHANGED <<trVars, alVars, pbVars, tkCycles, tkReconnectTimers, tkLoading, tkStartTimers, tkIntervals, tkAuthPc>>

\* addStock after its pause: the mode frame for the single token
TkAddStockMode(token) ==
  /\ token \in tkAddPending
  /\ tkAddPending' = tkAddPending \ {token}
  /\ Commit(ticker, Delivered(tkSockets, ticker.ws, Frame("mode", <<token>>)))
  /\ UNCHANGED <<trVars, alVars, pbVars, tkCycles, tkReconnectTimers, tkLoading, tkStartTimers, tkIntervals,
                 tkAuthPc, subsFile, subscribedStocks, tkHist>>

\* unsubscribeStock(symbol)
UnsubscribeStock(symbol, written) ==
  /\ tkHist.started
  /\ tkHist.commands < MaxCommands
  /\ Includes(subscribedStocks, symbol)
  /\ subscribedStocks' = Splice(subscribedStocks, IndexOf(subscribedStocks, symbol))
  /\ subsFile' = SaveSubscriptions(subsFile, subscribedStocks', written)
  /\ IF ticker.isConnected
     THEN \E sendOk \in SendOutcomes(tkSockets, ticker.ws) :
            LET r == RemoveStock(ticker, tkSockets, symbol, sendOk) IN
            /\ Commit(r.t, r.socks)
            /\ tkHist' = [tkHist EXCEPT
                  !.commands = @ + 1, !.closeTokens = {},
                  !.removed = IF RemovedTracked(ticker, symbol, sendOk)
                              THEN @ \cup {symbol} ELSE @,
                  !.written = written, !.result = Result(symbol)]
     ELSE /\ tkHist' = [tkHist EXCEPT !.commands = @ + 1, !.closeTokens = {},
                                      !.written = written,
                                      !.result = Result(symbol)]
          /\ UNCHANGED <<ticker, tkSockets>>
  /\ UNCHANGED <<trVars, alVars, pbVars, tkCycles, tkReconnectTimers, tkLoading, tkStartTimers, tkIntervals,
                 tkAddPending, tkAuthPc>>

\* the tokens the server streams on a socket: subscribed by a frame it
\* received and not unsubscribed by a later one
Streamed(sock) ==
  {tok \in {101, 102} :
     \E i \in DOMAIN sock.frames :
       /\ sock.frames[i].a = "subscribe" /\ Includes(sock.frames[i].v, tok)
       /\ \A j \in (i + 1)..Len(sock.frames) :
            ~(sock.frames[j].a = "unsubscribe" /\ Includes(sock.frames[j].v, tok))}

\* the server sends a tick frame for a token it streams on socket s
TkServerTick(s, tok) ==
  /\ tkSockets[s].st = "open"
  /\ tok \in Streamed(tkSockets[s])
  /\ tok \notin tkSockets[s].ticks
  /\ tkSockets' = [tkSockets EXCEPT ![s].ticks = @ \cup {tok}]
  /\ UNCHANGED <<trVars, alVars, pbVars, tkCycles, ticker, tkReconnectTimers, tkLoading,
                 tkStartTimers, tkIntervals, tkAddPending, tkAuthPc, subsFile,
                 subscribedStocks, tkHist>>

\* processTicks on one tick: the entry is stored under the symbol that
\* tokenToSymbolMap gives for the token
ProcessTicksOf(t, tok) ==
  [t EXCEPT !.stockData =
     @ \cup {sym \in DOMAIN instrumentsCache : instrumentsCache[sym] = tok}]

\* the 'message' handler on a tick frame: handleMessage, processTicks
TkMessage(s, tok) ==
  /\ tkSockets[s].st \in {"open", "closing"}
  /\ tok \in tkSockets[s].ticks
  /\ Commit([ProcessTicksOf(ticker, tok) EXCEPT !.subscriptionConfirmed = TRUE],
            [tkSockets EXCEPT ![s].ticks = @ \ {tok}])
  /\ UNCHANGED <<trVars, alVars, pbVars, tkCycles, tkReconnectTimers, tkLoading,
                 tkStartTimers, tkIntervals, tkAddPending, tkAuthPc, subsFile,
                 subscribedStocks, tkHist>>

\* the feed: tick frames sent and received
FeedNext ==
  \/ \E s \in DOMAIN tkSockets, tok \in {101, 102} : TkServerTick(s, tok)
  \/ \E s \in DOMAIN tkSockets, tok \in {101, 102} : TkMessage(s, tok)

----------------------------------------------------------------------------
(* The ticker application *)

\* the session: start, transport events, timers, stop
SessionNext ==
  \/ \E c \in BOOLEAN : AppStart(c)
  \/ \E by \in {"app", "restart"} : TkInitConnect(by)
  \/ \E by \in {"app", "restart"} : TkInitLoadFails(by)
  \/ \E s \in DOMAIN tkSockets : TkSockOpen(s)
  \/ \E s \in DOMAIN tkSockets : TkSendMode(s)
  \/ \E s \in DOMAIN tkSockets : TkConnectTimeout(s)
  \/ \E s \in DOMAIN tkSockets : TkSockFails(s)
  \/ \E s \in DOMAIN tkSockets : TkSockCloses(s)
  \/ TkReconnectFires
  \/ TkStartDiscordUpdates
  \/ TkStop

\* the publish cycles
TkPublisherNext ==
  \/ TkIntervalFires
  \/ \E i \in DOMAIN tkCycles, ok \in BOOLEAN : TkCycleStep(i, ok)

\* the credential rotation and the restart() it performs
RotationNext ==
  \/ TkPerformAutoLogin
  \/ \E ok \in BOOLEAN : TkLoginReturns(ok)
  \/ TkRestart
  \/ TkRestartInitialize

\* the registry commands of the users
CommandNext ==
  \/ \E sym \in Symbols, w \in BOOLEAN : SubscribeStock(sym, w)
  \/ \E t \in {101, 102} : TkAddStockMode(t)
  \/ \E sym \in Symbols, w \in BOOLEAN : UnsubscribeStock(sym, w)

----------------------------------------------------------------------------
(* The tracker application                                                 *)

(* Bounds *)

MaxCronRuns == 1       \* firings of the cron callback in one run
MaxEntries == 120      \* tokens that token.json may list

(* Program constants *)

STOCKS_PER_MESSAGE == 50

(* token.json: a JSON array whose entries are strings of digits or numbers. *)
(* An entry is [str, chars, num]: a string with the characters chars, or    *)
(* the number num.                                                          *)
TokenJson ==
  << [str |-> TRUE,  chars |-> <<1, 0, 1>>, num |-> 0],
     [str |-> FALSE, chars |-> <<>>,        num |-> 102] >>

\* the instrument tokens the broker's NSE catalog lists
TrCatalog == 101..(100 + MaxEntries)

Procs == {"boot", "cron"}

\* parseInt of a string of decimal digits
RECURSIVE ParseInt(_)
ParseInt(chars) ==
  IF chars = <<>> THEN 0
  ELSE 10 * ParseInt(SubSeq(chars, 1, Len(chars) - 1)) + chars[Len(chars)]

\* loadTokensAndInstruments: tokenData.map(...)
LoadTokens(file) ==
  [i \in 1..Len(file) |-> IF file[i].str THEN ParseInt(file[i].chars)
                          ELSE file[i].num]

\* a control frame of the tracker: m is the mode of a mode frame
TrFrame(a, m, v) == [a |-> a, m |-> m, v |-> v]

\* a connectWebSocket that uses the access token the process started with
TrNewSocketStale(by, cred, born) ==
  [st |-> "connecting", by |-> by, pc |-> "await", cred |-> 0,
   born |-> born, frames |-> <<>>]

\* new WebSocket(WS_URL): cred is the access token in the URL; born counts
\* the credentials persisted before the socket was created
TrNewSocket(by, cred, born) ==
  [st |-> "connecting", by |-> by, pc |-> "await", cred |-> cred,
   born |-> born, frames |-> <<>>]

\* the chunks of updateDiscordMessages for n snapshot entries
ChunkCount(n) == (n + STOCKS_PER_MESSAGE - 1) \div STOCKS_PER_MESSAGE

\* the keys of stockData sorted by their index in tokens
SortedData(t) ==
  LET First(i) == /\ t.tokens[i] \in t.stockData
                  /\ \A j \in 1..(i - 1) : t.tokens[j] # t.tokens[i]
      kept == SelectSeq([i \in 1..Len(t.tokens) |-> i], First)
  IN  [k \in 1..Len(kept) |-> t.tokens[kept[k]]]

\* sortedData.slice(i, i + STOCKS_PER_MESSAGE), i counted from 0
Slice(q, i) ==
  SubSeq(q, i + 1, IF i + STOCKS_PER_MESSAGE < Len(q)
                   THEN i + STOCKS_PER_MESSAGE ELSE Len(q))

RECURSIVE ChunksFrom(_, _)
ChunksFrom(q, i) ==
  IF i < Len(q) THEN <<Slice(q, i)>> \o ChunksFrom(q, i + STOCKS_PER_MESSAGE)
  ELSE <<>>

RECURSIVE FullChunksFrom(_, _)
FullChunksFrom(q, i) ==
  IF i + STOCKS_PER_MESSAGE <= Len(q)
  THEN <<Slice(q, i)>> \o FullChunksFrom(q, i + STOCKS_PER_MESSAGE)
  ELSE <<>>

ChunksFull(sortedData) == FullChunksFrom(sortedData, 0)

\* the chunks of updateDiscordMessages
Chunks(sortedData) == ChunksFrom(sortedData, 0)

\* sortedData.findIndex(([t]) => t === token), counted from 0
FindIndex(sortedData, token) ==
  IF \E i \in DOMAIN sortedData : sortedData[i] = token
  THEN (CHOOSE i \in DOMAIN sortedData :
          sortedData[i] = token /\ \A j \in 1..(i - 1) : sortedData[j] # token) - 1
  ELSE -1

\* a page whose lines are numbered within the page
RenderPageLocal(sortedData, chunks, chunkIndex) ==
  LET chunk == chunks[chunkIndex + 1] IN
  [header  |-> <<chunkIndex + 1, Len(chunks)>>,
   lines   |-> [j \in 1..Len(chunk) |-> [index |-> j, token |-> chunk[j]]],
   trailer |-> chunkIndex = Len(chunks) - 1]

\* the content updateDiscordMessages builds for chunk chunkIndex: the
\* header "LIVE TRACKER i/total", one line per entry that starts with its
\* globalIndex, and the "Total" trailer on the last chunk
RenderPage(sortedData, chunks, chunkIndex) ==
  LET chunk == chunks[chunkIndex + 1] IN
  [header  |-> <<chunkIndex + 1, Len(chunks)>>,
   lines   |-> [j \in 1..Len(chunk) |->
                  [index |-> FindIndex(sortedData, chunk[j]) + 1,
                   token |-> chunk[j]]],
   trailer |-> chunkIndex = Len(chunks) - 1]

\* the service fields and the sockets an action leaves behind
TrCommit(t, socks) ==
  /\ tracker' = Collect(t, socks).t
  /\ trSockets' = Collect(t, socks).socks

(* Initial state: the constructors of TokenTrackerService and ScheduledAuth *)

\* the observations of a process outside performAutoLogin
NoRun ==
  [stage |-> "app", outcome |-> "none", before |-> <<>>, logins |-> 0,
   msgs |-> <<>>, steps |-> <<>>]

TrackerNew ==
  [ws |-> 0, tokens |-> <<>>, mapped |-> {}, stockData |-> {},
   discordMessages |-> {}, updateInterval |-> FALSE, isConnected |-> FALSE]

\* what a finished performAutoLogin run did
RunRecord(r, t) ==
  [outcome |-> r.outcome, before |-> r.before, after |-> t.tokens,
   logins |-> r.logins, msgs |-> r.msgs]

TrackerInit ==
  /\ tracker = TrackerNew
  /\ trSockets = <<>>
  /\ trProc = [p \in Procs |->
                 [pc |-> IF p = "boot" THEN "off" ELSE "idle"] @@ NoRun]
  /\ trStartTimers = 0
  /\ trIntervals = 0
  /\ trCycles = <<>>
  /\ accessToken = 0
  /\ zerodhaConnected = FALSE
  /\ tokenFile = TokenJson
  /\ trHist = [signalled |-> FALSE, dropped |-> FALSE, cronRuns |-> 0,
               persists |-> 0, stops |-> 0, last |-> RunRecord(NoRun, TrackerNew),
               lastClean |-> FALSE, stopped |-> FALSE]

----------------------------------------------------------------------------
(* TokenTrackerService and ScheduledAuth: pieces of handlers *)

\* a stop() that also empties the token list
TrStopFieldsClearing(t) ==
  [t EXCEPT !.updateInterval = FALSE, !.isConnected = FALSE,
            !.discordMessages = {}, !.stockData = {}, !.tokens = <<>>]

\* stop(), on the service fields
TrStopFields(t) ==
  [t EXCEPT !.updateInterval = FALSE, !.isConnected = FALSE,
            !.discordMessages = {}, !.stockData = {}]

\* stop(), on the sockets: this.ws.close() when connected
TrStopSockets(t, socks) ==
  IF t.ws # 0 /\ t.isConnected
  THEN [socks EXCEPT ![t.ws].st =
          IF @ = "open" THEN "closing"
          ELSE IF @ = "connecting" THEN "aborted" ELSE @]
  ELSE socks

\* stop(), on the interval timers: clearInterval(this.updateInterval)
TrStopIntervals(t, n) == IF t.updateInterval THEN n - 1 ELSE n

\* performAutoLogin up to its await of autoLogin.login()
BeginRun(r, t) ==
  [r EXCEPT !.pc = "login", !.stage = "auth", !.outcome = "none",
            !.before = t.tokens, !.logins = 1, !.msgs = <<"started">>,
            !.steps = <<>>]

\* performAutoLogin after login() reported success: the success message,
\* then the await of zerodhaService.initialize()
LoginSucceeded(r) ==
  [r EXCEPT !.pc = "validate", !.outcome = "success",
            !.msgs = Append(@, "refreshed"),
            !.steps = <<"persist", "validate">>]

\* a performAutoLogin that calls login() again after a failure
LoginFailedRetry(r) ==
  [r EXCEPT !.pc = "login", !.logins = @ + 1, !.msgs = Append(@, "failed")]

\* performAutoLogin after login() reported failure: the failure message
LoginFailed(r) ==
  [r EXCEPT !.pc = "return", !.outcome = "failure", !.msgs = Append(@, "failed")]

\* performAutoLogin after login() rejected: the catch's message
LoginThrew(r) ==
  [r EXCEPT !.pc = "return", !.outcome = "threw", !.msgs = Append(@, "crashed")]

\* tokenTrackerService.initialize() up to the await in loadExistingMessages
StartInitialize(r, stage) == [r EXCEPT !.pc = "load", !.stage = stage]

\* start() of the tracker application after scheduledAuth.start() returned
AppContinue(r, zc) ==
  IF zc THEN StartInitialize(r, "app") ELSE [r EXCEPT !.pc = "done", !.stage = "app"]

\* the caller of performAutoLogin after it returned: the cron callback ends;
\* checkAndRefreshOnStartup initializes the tracker when it is not connected
AfterRun(p, t, zc) ==
  LET r == [pc |-> "idle"] @@ NoRun IN
  IF p = "cron" THEN r
  ELSE IF ~t.isConnected THEN StartInitialize(r, "startup")
  ELSE AppContinue(r, zc)

\* the caller of initialize() after it returned (initialize() catches what
\* its steps throw).  Result: the process record and the last finished run.
AfterInitialize(r, p, t, zc, last) ==
  IF r.stage = "auth"
  THEN [proc |-> AfterRun(p, t, zc),
        last |-> RunRecord([r EXCEPT !.msgs = Append(@, "restarted")], t)]
  ELSE IF r.stage = "startup"
  THEN [proc |-> AppContinue(r, zc), last |-> last]
  ELSE [proc |-> [r EXCEPT !.pc = "done"], last |-> last]

\* the observations after a caller went on: initialize() has been entered
\* when the caller is at its first await
Entering(r, h) == IF r.pc = "load" THEN [h EXCEPT !.stopped = FALSE] ELSE h

\* initialize() of process p returns; armed tells whether it reached its
\* setTimeout(startDiscordUpdates), h the observations so far
InitializeReturns(p, t, armed, h) ==
  LET a == AfterInitialize(trProc[p], p, t, zerodhaConnected, h.last)
  IN  /\ trProc' = [trProc EXCEPT ![p] = a.proc]
      /\ trHist' = Entering(a.proc, [h EXCEPT !.last = a.last])
      /\ trStartTimers' = IF armed THEN trStartTimers + 1 ELSE trStartTimers

\* a step of the rotation, recorded while performAutoLogin runs
Step(r, names) == IF r.stage = "auth" THEN [r EXCEPT !.steps = @ \o names] ELSE r

----------------------------------------------------------------------------
(* The tracker application: start-up and credential rotation               *)
(*                                                                         *)
(* discordService.log catches what its send throws and changes nothing the *)
(* model reads: the awaits on it are not split into steps of their own.    *)
(* The API key and an access token are taken to be configured, and         *)
(* token.json to exist.                                                    *)

\* start(): discordService.initialize() returned; scheduledAuth.start()
\* registers the cron callback and checkAndRefreshOnStartup awaits
\* zerodhaService.initialize()
TrBoot ==
  /\ trProc["boot"].pc = "off"
  /\ trProc' = [trProc EXCEPT !["boot"].pc = "check"]
  /\ UNCHANGED <<tkVars, alVars, pbVars, tracker, trSockets, trStartTimers, trIntervals, trCycles,
                 accessToken, zerodhaConnected, tokenFile, trHist>>

\* checkAndRefreshOnStartup: the profile call returned.  A valid token lets
\* start() initialize the tracker; an invalid one starts performAutoLogin.
TrStartupCheck(valid) ==
  /\ trProc["boot"].pc = "check"
  /\ zerodhaConnected' = valid
  /\ trProc' = [trProc EXCEPT !["boot"] =
                  IF valid THEN AppContinue(@, TRUE) ELSE BeginRun(@, tracker)]
  /\ trHist' = Entering(trProc'["boot"], trHist)
  /\ UNCHANGED <<tkVars, alVars, pbVars, tracker, trSockets, trStartTimers, trIntervals, trCycles,
                 accessToken, tokenFile>>

\* the cron callback fires, start() having returned: performAutoLogin
TrCronFires ==
  /\ trProc["boot"].pc = "done"
  /\ trProc["cron"].pc = "idle"
  /\ trHist.cronRuns < MaxCronRuns
  /\ trProc' = [trProc EXCEPT !["cron"] = BeginRun(@, tracker)]
  /\ trHist' = [trHist EXCEPT !.cronRuns = @ + 1]
  /\ UNCHANGED <<tkVars, alVars, pbVars, tracker, trSockets, trStartTimers, trIntervals, trCycles,
                 accessToken, zerodhaConnected, tokenFile>>

\* the cron callback fires while start() still awaits scheduledAuth.start()
\* or its own initialize(): cron.schedule has registered the callback
\* before checkAndRefreshOnStartup is called, and performAutoLogin tests
\* nothing before it starts
TrCronFiresEarly ==
  /\ trProc["boot"].pc \notin {"off", "done"}
  /\ trProc["cron"].pc = "idle"
  /\ trHist.cronRuns < MaxCronRuns
  /\ trProc' = [trProc EXCEPT !["cron"] = BeginRun(@, tracker)]
  /\ trHist' = [trHist EXCEPT !.cronRuns = @ + 1]
  /\ UNCHANGED <<tkVars, alVars, pbVars, tracker, trSockets, trStartTimers, trIntervals, trCycles,
                 accessToken, zerodhaConnected, tokenFile>>

\* autoLogin.login() settles.  On success saveToken has set the access
\* token; a login that rejects (browser.close() throwing in its finally)
\* may have done so too.
TrLoginReturns(p, outcome, persisted) ==
  /\ trProc[p].pc = "login"
  /\ outcome = "success" => persisted
  /\ outcome = "failure" => ~persisted
  /\ LET r == IF outcome = "success" THEN LoginSucceeded(trProc[p])
              ELSE IF outcome = "failure" THEN LoginFailed(trProc[p])
              ELSE LoginThrew(trProc[p])
         h == [trHist EXCEPT !.persists = IF persisted THEN @ + 1 ELSE @]
     IN  /\ accessToken' = IF persisted THEN accessToken + 1 ELSE accessToken
         /\ IF r.pc = "return"
            THEN /\ trProc' = [trProc EXCEPT ![p] =
                                 AfterRun(p, tracker, zerodhaConnected)]
                 /\ trHist' = Entering(trProc'[p],
                                       [h EXCEPT !.last = RunRecord(r, tracker)])
            ELSE /\ trProc' = [trProc EXCEPT ![p] = r]
                 /\ trHist' = h
  /\ UNCHANGED <<tkVars, alVars, pbVars, tracker, trSockets, trStartTimers, trIntervals, trCycles,
                 zerodhaConnected, tokenFile>>

\* zerodhaService.initialize() returned (its result is not read); then
\* tracker.stop() runs and performAutoLogin starts its 2 s pause
TrValidated(p, ok) ==
  /\ trProc[p].pc = "validate"
  /\ zerodhaConnected' = ok
  /\ TrCommit(TrStopFields(tracker), TrStopSockets(tracker, trSockets))
  /\ trIntervals' = TrStopIntervals(tracker, trIntervals)
  /\ trProc' = [trProc EXCEPT ![p] = Step([@ EXCEPT !.pc = "pause"],
                                          <<"stop", "pause">>)]
  /\ trHist' = [trHist EXCEPT !.stops = @ + 1, !.dropped = FALSE,
                               !.stopped = TRUE]
  /\ UNCHANGED <<tkVars, alVars, pbVars, trStartTimers, trCycles, accessToken, tokenFile>>

\* the pause is over: tracker.initialize()
TrPauseEnds(p) ==
  /\ trProc[p].pc = "pause"
  /\ trProc' = [trProc EXCEPT ![p] = Step(StartInitialize(@, @.stage),
                                          <<"initialize">>)]
  /\ trHist' = Entering(trProc'[p], trHist)
  /\ UNCHANGED <<tkVars, alVars, pbVars, tracker, trSockets, trStartTimers, trIntervals, trCycles,
                 accessToken, zerodhaConnected, tokenFile>>

\* SIGTERM / SIGINT: tokenTrackerService.stop()
TrSignal ==
  /\ trProc["boot"].pc # "off"
  /\ ~trHist.signalled
  /\ TrCommit(TrStopFields(tracker), TrStopSockets(tracker, trSockets))
  /\ trIntervals' = TrStopIntervals(tracker, trIntervals)
  /\ trHist' = [trHist EXCEPT !.signalled = TRUE, !.stops = @ + 1,
                               !.dropped = FALSE, !.stopped = TRUE]
  /\ UNCHANGED <<tkVars, alVars, pbVars, trProc, trStartTimers, trCycles, accessToken,
                 zerodhaConnected, tokenFile>>

----------------------------------------------------------------------------
(* TokenTrackerService: initialize(), the socket events, the publisher *)

\* loadExistingMessages: the channel's fetch returned n tracker messages of
\* the bot (none when it threw); then loadTokensAndInstruments reads
\* token.json and awaits getInstruments
TrLoadedMessages(p, n) ==
  /\ trProc[p].pc = "load"
  /\ tracker' = [tracker EXCEPT !.discordMessages = @ \cup 0..(n - 1),
                                !.tokens = LoadTokens(tokenFile)]
  /\ trProc' = [trProc EXCEPT ![p].pc = "instruments"]
  /\ UNCHANGED <<tkVars, alVars, pbVars, trSockets, trStartTimers, trIntervals, trCycles,
                 accessToken, zerodhaConnected, tokenFile, trHist>>

\* getInstruments returned: the tokens are mapped to symbols and
\* connectWebSocket creates the socket from the current access token; or it
\* threw, and initialize() returns
TrInstruments(p, ok) ==
  /\ trProc[p].pc = "instruments"
  /\ IF ok
     THEN /\ Active(trSockets) < MaxSockets
          /\ TrCommit([tracker EXCEPT
                         !.mapped = @ \cup (Range(tracker.tokens) \cap TrCatalog),
                         !.ws = Len(trSockets) + 1],
                      Append(trSockets,
                             TrNewSocket(p, accessToken, trHist.persists)))
          /\ trProc' = [trProc EXCEPT ![p] = Step([@ EXCEPT !.pc = "await"],
                                                  <<"connect">>)]
          /\ UNCHANGED <<trStartTimers, trHist>>
     ELSE /\ InitializeReturns(p, tracker, FALSE, trHist)
          /\ UNCHANGED <<tracker, trSockets>>
  /\ UNCHANGED <<tkVars, alVars, pbVars, trIntervals, trCycles, accessToken, zerodhaConnected,
                 tokenFile>>

\* 'open' of socket s, then the continuation of the initialize() awaiting
\* it: subscribeToTokens up to its 1 s pause
TrSockOpen(s) ==
  /\ trSockets[s].st = "connecting"
  /\ LET t1 == [tracker EXCEPT !.isConnected = TRUE]
         so == [trSockets EXCEPT ![s].st = "open"]
         p == trSockets[s].by
         h == [trHist EXCEPT !.dropped = FALSE]
     IN  IF trSockets[s].pc # "await"
         THEN \* the promise was rejected by the 10 s timeout: nobody waits
              /\ TrCommit(t1, so)
              /\ trHist' = h
              /\ UNCHANGED <<trProc, trStartTimers>>
         ELSE IF Len(t1.tokens) = 0
         THEN /\ TrCommit(t1, [so EXCEPT ![s].pc = "done"])
              /\ InitializeReturns(p, t1, TRUE, h)
         ELSE \E ok \in SendOutcomes(so, t1.ws) :
              IF ok
              THEN /\ TrCommit(t1, [Delivered(so, t1.ws,
                                      TrFrame("subscribe", "", t1.tokens))
                                      EXCEPT ![s].pc = "done"])
                   /\ trProc' = [trProc EXCEPT ![p] =
                                   Step([@ EXCEPT !.pc = "subpause"],
                                        <<"subscribe">>)]
                   /\ trHist' = h
                   /\ UNCHANGED trStartTimers
              ELSE /\ TrCommit(t1, [so EXCEPT ![s].pc = "ended"])
                   /\ InitializeReturns(p, t1, FALSE, h)
  /\ UNCHANGED <<tkVars, alVars, pbVars, trIntervals, trCycles, accessToken, zerodhaConnected,
                 tokenFile>>

\* subscribeToTokens after its pause: the mode frame goes to this.ws, and
\* initialize() arms the publish timer when the send did not throw
TrSendMode(p) ==
  /\ trProc[p].pc = "subpause"
  /\ \E ok \in SendOutcomes(trSockets, tracker.ws) :
       /\ TrCommit(tracker, Delivered(trSockets, tracker.ws,
                                      TrFrame("mode", "quote", tracker.tokens)))
       /\ InitializeReturns(p, tracker, ok, trHist)
  /\ UNCHANGED <<tkVars, alVars, pbVars, trIntervals, trCycles, accessToken, zerodhaConnected,
                 tokenFile>>

\* the 10 s timer of connectWebSocket rejects the promise; the socket is
\* left as it is
TrConnectTimeout(s) ==
  /\ trSockets[s].st \in {"connecting", "aborted"}
  /\ trSockets[s].pc = "await"
  /\ TrCommit(tracker, [trSockets EXCEPT ![s].pc = "ended"])
  /\ InitializeReturns(trSockets[s].by, tracker, FALSE, trHist)
  /\ UNCHANGED <<tkVars, alVars, pbVars, trIntervals, trCycles, accessToken, zerodhaConnected,
                 tokenFile>>

\* the handshake of socket s fails: 'error', then 'close'
TrSockFails(s) ==
  /\ trSockets[s].st \in {"connecting", "aborted"}
  /\ LET rejects == ~tracker.isConnected /\ trSockets[s].pc = "await"
         t1 == [tracker EXCEPT !.isConnected = FALSE]
     IN  /\ TrCommit(t1, [trSockets EXCEPT ![s].st = "closed",
                            ![s].pc = IF rejects THEN "ended"
                                      ELSE IF @ = "await" THEN "hung" ELSE @])
         /\ IF rejects THEN InitializeReturns(trSockets[s].by, t1, FALSE, trHist)
            ELSE UNCHANGED <<trProc, trStartTimers, trHist>>
  /\ UNCHANGED <<tkVars, alVars, pbVars, trIntervals, trCycles, accessToken, zerodhaConnected,
                 tokenFile>>

\* the transport of an open socket closes (server or network), or the close
\* that stop() asked for completes: 'close'
TrSockCloses(s) ==
  /\ trSockets[s].st \in {"open", "closing"}
  /\ TrCommit([tracker EXCEPT !.isConnected = FALSE],
              [trSockets EXCEPT ![s].st = "closed"])
  /\ trHist' = [trHist EXCEPT !.dropped =
                  IF trSockets[s].st = "open" /\ s = tracker.ws /\ tracker.isConnected
                  THEN TRUE ELSE @]
  /\ UNCHANGED <<tkVars, alVars, pbVars, trProc, trStartTimers, trIntervals, trCycles,
                 accessToken, zerodhaConnected, tokenFile>>

\* a binary message on socket s carries a tick of token tok: processTicks
\* stores it when the token is mapped to a symbol
TrTick(s, tok) ==
  /\ trSockets[s].st = "open"
  /\ \E i \in DOMAIN trSockets[s].frames :
       trSockets[s].frames[i].a = "subscribe"
       /\ Includes(trSockets[s].frames[i].v, tok)
  /\ tok \in tracker.mapped
  /\ tok \notin tracker.stockData
  /\ tracker' = [tracker EXCEPT !.stockData = @ \cup {tok}]
  /\ UNCHANGED <<tkVars, alVars, pbVars, trSockets, trProc, trStartTimers, trIntervals, trCycles,
                 accessToken, zerodhaConnected, tokenFile, trHist>>

\* the 2 s timer of initialize() fires: startDiscordUpdates
TrStartDiscordUpdates ==
  /\ trStartTimers > 0
  /\ trStartTimers' = trStartTimers - 1
  /\ trIntervals' = trIntervals + 1
  /\ tracker' = [tracker EXCEPT !.updateInterval = TRUE]
  /\ UNCHANGED <<tkVars, alVars, pbVars, trSockets, trProc, trCycles, accessToken,
                 zerodhaConnected, tokenFile, trHist>>

\* updateDiscordMessages at chunk idx: the await it stops at.  A cycle is
\* [n, chunks, idx, pc] and three observations: had, whether a handle was
\* stored for idx when the cycle came to it; clean, no send or edit of the
\* cycle failed; follows, the cycle that returned last before this one
\* started was fully successful
AtChunk(c, idx, msgs) ==
  [c EXCEPT !.idx = idx, !.pc = IF idx \in msgs THEN "edit" ELSE "send",
            !.had = idx \in msgs]

\* the cycles in flight after cycle i finished its chunk
NextChunk(cycles, i, msgs) ==
  IF cycles[i].idx + 1 < cycles[i].n
  THEN [cycles EXCEPT ![i] = AtChunk(@, @.idx + 1, msgs)]
  ELSE Splice(cycles, i)

\* a 3 s interval fires: updateDiscordMessages runs to its first await (it
\* returns at once while the snapshot is empty)
TrIntervalFires ==
  /\ trIntervals > 0
  /\ tracker.stockData # {}
  /\ Len(trCycles) < MaxCycles
  /\ LET n == ChunkCount(Cardinality(tracker.stockData)) IN
     trCycles' = Append(trCycles,
                   AtChunk([n |-> n, chunks |-> Chunks(SortedData(tracker)),
                            idx |-> 0, pc |-> "send", had |-> FALSE,
                            clean |-> TRUE, follows |-> trHist.lastClean],
                           0, tracker.discordMessages))
  /\ UNCHANGED <<tkVars, alVars, pbVars, tracker, trSockets, trProc, trStartTimers, trIntervals,
                 accessToken, zerodhaConnected, tokenFile, trHist>>

\* the await of cycle i settles: a send stores the handle and starts the
\* 200 ms spacer (a send that throws ends the cycle), a failed edit deletes
\* the handle
TrCycleStep(i, ok) ==
  /\ i \in DOMAIN trCycles
  /\ LET c == trCycles[i] IN
     IF c.pc = "send"
     THEN IF ok
          THEN /\ tracker' = [tracker EXCEPT !.discordMessages = @ \cup {c.idx}]
               /\ trCycles' = [trCycles EXCEPT ![i].pc = "spacer"]
          ELSE /\ trCycles' = Splice(trCycles, i)
               /\ UNCHANGED tracker
     ELSE IF c.pc = "spacer"
     THEN /\ ok
          /\ trCycles' = NextChunk(trCycles, i, tracker.discordMessages)
          /\ UNCHANGED tracker
     ELSE /\ tracker' = [tracker EXCEPT !.discordMessages =
                           IF ok THEN @ ELSE @ \ {c.idx}]
          /\ trCycles' = NextChunk([trCycles EXCEPT ![i].clean = @ /\ ok], i,
                                    tracker'.discordMessages)
  /\ trHist' = [trHist EXCEPT !.lastClean =
                  IF Len(trCycles') < Len(trCycles)
                  THEN trCycles[i].clean /\ ok ELSE @]
  /\ UNCHANGED <<tkVars, alVars, pbVars, trSockets, trProc, trStartTimers, trIntervals,
                 accessToken, zerodhaConnected, tokenFile>>

----------------------------------------------------------------------------
(* The tracker application *)

\* start-up, the rotation it may perform, the session, the shutdown signal
TrSessionNext ==
  \/ TrBoot
  \/ \E valid \in BOOLEAN : TrStartupCheck(valid)
  \/ \E p \in Procs, o \in {"success", "failure", "threw"}, s \in BOOLEAN :
       TrLoginReturns(p, o, s)
  \/ \E p \in Procs, ok \in BOOLEAN : TrValidated(p, ok)
  \/ \E p \in Procs : TrPauseEnds(p)
  \/ \E p \in Procs, n \in 0..1 : TrLoadedMessages(p, n)
  \/ \E p \in Procs, ok \in BOOLEAN : TrInstruments(p, ok)
  \/ \E s \in DOMAIN trSockets : TrSockOpen(s)
  \/ \E p \in Procs : TrSendMode(p)
  \/ \E s \in DOMAIN trSockets : TrConnectTimeout(s)
  \/ \E s \in DOMAIN trSockets : TrSockFails(s)
  \/ \E s \in DOMAIN trSockets : TrSockCloses(s)
  \/ \E s \in DOMAIN trSockets, tok \in Range(tracker.tokens) : TrTick(s, tok)
  \/ TrStartDiscordUpdates
  \/ TrSignal

\* the publish cycles
TrPublisherNext ==
  \/ TrIntervalFires
  \/ \E i \in DOMAIN trCycles, ok \in BOOLEAN : TrCycleStep(i, ok)

----------------------------------------------------------------------------
(* TokenTrackerService: processTicks and the alert rules                   *)
(*                                                                         *)
(* The session model above keeps the keys of tracker.stockData; here the   *)
(* entries are modelled.  Prices are in paise (the integer of the packet); *)
(* the percentage and the ratio are compared exactly; every price is       *)
(* positive.  The ticks are those of a tracker whose initialize() has      *)
(* mapped the tokens of token.json.                                        *)

(* Bounds *)

MaxTicks == 3          \* ticks received in one run

(* Program constants *)

CRASH_THRESHOLD == -3
SPIKE_THRESHOLD == 3
VOLUME_SPIKE == 2
TIME_WINDOW == 300000

tokenToSymbolMap == Range(LoadTokens(TokenJson)) \cap TrCatalog

\* price and traded volume of a quote packet
Quotes ==
  { [p |-> 10000, v |-> 10], [p |-> 10000, v |-> 20], [p |-> 9700, v |-> 20],
    [p |-> 10300, v |-> 20], [p |-> 10000, v |-> 0] }

\* the quotes that token 102 takes
FewQuotes == { [p |-> 10000, v |-> 10], [p |-> 9700, v |-> 20] }

\* what parseBinaryTicks returns for a packet; token 999 is not tracked
Ticks ==
  { [instrument_token |-> t, last_price |-> q.p, volume_traded |-> q.v] :
      t \in {101}, q \in Quotes }
  \cup { [instrument_token |-> 102, last_price |-> q.p, volume_traded |-> q.v] :
            q \in FewQuotes }
  \cup { [instrument_token |-> 999, last_price |-> 10000, volume_traded |-> 10] }

\* the ticks of one binary message
TickFrames == { <<a>> : a \in Ticks } \cup { <<a, b>> : a, b \in Ticks }

\* time between two binary messages, in ms
Delays == { TIME_WINDOW, TIME_WINDOW + 1 }

\* Map.set
MapSet(m, k, v) == [x \in DOMAIN m \cup {k} |-> IF x = k THEN v ELSE m[x]]

EmptyMap == [x \in {} |-> 0]

\* the entry processTicks stores for a tick at time t
Entry(tick, t) ==
  [last_price |-> tick.last_price, volume |-> tick.volume_traded,
   timestamp |-> t]

\* a checkForAlerts call: pc is the alert whose send it awaits, sent the
\* alerts handed to alertChannel.send, failed whether a send has thrown,
\* nochan whether sendAlert found no alert channel
NewCheck(token, old, new) ==
  [token |-> token, old |-> old, new |-> new, pc |-> "start", sent |-> <<>>,
   failed |-> FALSE, nochan |-> FALSE]

AlertTypes == <<"CRASH", "SPIKE", "VOLUME_SPIKE">>

PriceCrashStrict(old, new) ==
  100 * (new.last_price - old.last_price) < CRASH_THRESHOLD * old.last_price

\* priceChange <= CRASH_THRESHOLD
PriceCrash(old, new) ==
  100 * (new.last_price - old.last_price) <= CRASH_THRESHOLD * old.last_price

\* priceChange >= SPIKE_THRESHOLD
PriceSpike(old, new) ==
  100 * (new.last_price - old.last_price) >= SPIKE_THRESHOLD * old.last_price

\* both volumes truthy and volumeRatio >= VOLUME_SPIKE
VolumeSpike(old, new) ==
  /\ old.volume # 0
  /\ new.volume # 0
  /\ new.volume >= VOLUME_SPIKE * old.volume

\* the condition of the k-th rule of checkForAlerts
RuleHolds(k, old, new) ==
  CASE k = 1 -> PriceCrash(old, new)
    [] k = 2 -> PriceSpike(old, new)
    [] k = 3 -> VolumeSpike(old, new)

\* checkForAlerts from its k-th rule to its next await of alertChannel.send,
\* or to its end; sendAlert returns at once when the channel is missing
RECURSIVE CheckFromFirstOnly(_, _, _)
CheckFromFirstOnly(c, k, chan) ==
  IF k > Len(AlertTypes) \/ c.sent # <<>> THEN [c EXCEPT !.pc = "done"]
  ELSE IF ~RuleHolds(k, c.old, c.new) THEN CheckFromFirstOnly(c, k + 1, chan)
  ELSE IF ~chan THEN CheckFromFirstOnly([c EXCEPT !.nochan = TRUE], k + 1, chan)
  ELSE [c EXCEPT !.pc = AlertTypes[k], !.sent = Append(@, AlertTypes[k])]

RECURSIVE CheckFrom(_, _, _)
CheckFrom(c, k, chan) ==
  IF k > Len(AlertTypes) THEN [c EXCEPT !.pc = "done"]
  ELSE IF ~RuleHolds(k, c.old, c.new) THEN CheckFrom(c, k + 1, chan)
  ELSE IF ~chan THEN CheckFrom([c EXCEPT !.nochan = TRUE], k + 1, chan)
  ELSE [c EXCEPT !.pc = AlertTypes[k], !.sent = Append(@, AlertTypes[k])]

checkForAlertsUnguarded(token, old, new, chan) ==
  CheckFrom(NewCheck(token, old, new), 1, chan)

\* checkForAlerts up to its first await
checkForAlerts(token, old, new, chan) ==
  IF new.timestamp - old.timestamp > TIME_WINDOW
  THEN [NewCheck(token, old, new) EXCEPT !.pc = "done"]
  ELSE CheckFrom(NewCheck(token, old, new), 1, chan)

AlertSettledResend(c, ok, chan) ==
  IF ok THEN CheckFrom(c, IndexOf(AlertTypes, c.pc) + 1, chan)
  ELSE [c EXCEPT !.sent = Append(@, c.pc), !.failed = TRUE]

\* the send that check c awaits settles: sendAlert returns, having logged
\* the error when it threw, and checkForAlerts goes on with its next rule
AlertSettled(c, ok, chan) ==
  CheckFrom([c EXCEPT !.failed = @ \/ ~ok], IndexOf(AlertTypes, c.pc) + 1, chan)

\* tick counts of alHist.applied
Counted(applied, token) ==
  [applied EXCEPT ![token] = IF @ < 2 THEN @ + 1 ELSE @]

\* the state processTicks works on: the snapshot, the checks awaiting, and
\* the observations of this frame
TickState(data, checks, h) == [data |-> data, checks |-> checks, h |-> h]

ProcessTickReadAfter(st, tick, t, chan) ==
  IF tick.instrument_token \notin tokenToSymbolMap THEN st
  ELSE LET token == tick.instrument_token
           newData == Entry(tick, t)
           c == checkForAlerts(token, newData, newData, chan)
       IN  TickState(MapSet(st.data, token, newData),
                     IF c.pc = "done" THEN st.checks ELSE Append(st.checks, c),
                     [st.h EXCEPT
                        !.applied = Counted(@, token),
                        !.invoked = Append(@, [token |-> token,
                                               old |-> newData, new |-> newData]),
                        !.done = IF c.pc = "done" THEN Append(@, c) ELSE @])

\* the body of the forEach of processTicks for one tick at time t
ProcessTick(st, tick, t, chan) ==
  IF tick.instrument_token \notin tokenToSymbolMap THEN st
  ELSE LET token == tick.instrument_token
           newData == Entry(tick, t)
           data == MapSet(st.data, token, newData)
           h == [st.h EXCEPT !.applied = Counted(@, token)]
       IN  IF token \notin DOMAIN st.data THEN TickState(data, st.checks, h)
           ELSE LET previousPrice == st.data[token]
                    c == checkForAlerts(token, previousPrice, newData, chan)
                IN  TickState(data,
                      IF c.pc = "done" THEN st.checks ELSE Append(st.checks, c),
                      [h EXCEPT
                         !.invoked = Append(@, [token |-> token,
                                                old |-> previousPrice,
                                                new |-> newData]),
                         !.done = IF c.pc = "done" THEN Append(@, c) ELSE @])

\* processTicks: the ticks of a frame from the i-th on, in wire order
RECURSIVE ProcessTicks(_, _, _, _, _)
ProcessTicks(st, ticks, i, t, chan) ==
  IF i > Len(ticks) THEN st
  ELSE ProcessTicks(ProcessTick(st, ticks[i], t, chan), ticks, i + 1, t, chan)

NoTicksApplied == [t \in tokenToSymbolMap |-> 0]

\* the observations at the start of a step
StepHist(h, frame) == [h EXCEPT !.frame = frame, !.invoked = <<>>, !.done = <<>>]

(* Initial state: the constructor; chan tells whether the channel cache of *)
(* the client holds the alert channel, which does not change in a run     *)

AlertStart(chan) ==
  /\ stockData = EmptyMap
  /\ previousData = EmptyMap
  /\ now = 0
  /\ alertChannel = chan
  /\ alChecks = <<>>
  /\ alHist = [ticks |-> 0, frame |-> <<>>, invoked |-> <<>>, done |-> <<>>,
               applied |-> NoTicksApplied]

AlertInit == AlertStart(TRUE)

(* Actions *)

\* a binary message with the ticks of frame arrives dt ms after the last one
TrBinaryMessage(frame, dt) ==
  /\ alHist.ticks + Len(frame) <= MaxTicks
  /\ now' = now + dt
  /\ LET h == [StepHist(alHist, frame) EXCEPT !.ticks = @ + Len(frame)]
         st == ProcessTicks(TickState(stockData, alChecks, h), frame, 1,
                            now', alertChannel)
     IN  /\ stockData' = st.data
         /\ alChecks' = st.checks
         /\ alHist' = st.h
  /\ UNCHANGED <<tkVars, trVars, pbVars, previousData, alertChannel>>

\* the send awaited by the i-th check settles
TrAlertSettles(i, ok) ==
  /\ i \in DOMAIN alChecks
  /\ LET c == AlertSettled(alChecks[i], ok, alertChannel)
         h == StepHist(alHist, <<>>)
     IN  IF c.pc = "done"
         THEN /\ alChecks' = Splice(alChecks, i)
              /\ alHist' = [h EXCEPT !.done = <<c>>]
         ELSE /\ alChecks' = [alChecks EXCEPT ![i] = c]
              /\ alHist' = h
  /\ UNCHANGED <<tkVars, trVars, pbVars, stockData, previousData, now, alertChannel>>

\* stop(): stockData.clear()
TrStopSnapshot ==
  /\ DOMAIN stockData # {}
  /\ stockData' = EmptyMap
  /\ alHist' = [StepHist(alHist, <<>>) EXCEPT !.applied = NoTicksApplied]
  /\ UNCHANGED <<tkVars, trVars, pbVars, previousData, now, alertChannel, alChecks>>

AlertNext ==
  \/ \E frame \in TickFrames, dt \in Delays : TrBinaryMessage(frame, dt)
  \/ \E i \in DOMAIN alChecks, ok \in BOOLEAN : TrAlertSettles(i, ok)
  \/ TrStopSnapshot

----------------------------------------------------------------------------
(* parseBinaryTicks                                                        *)
(*                                                                         *)
(* A buffer is a sequence of bytes; offsets are those of the source, from  *)
(* 0.                                                                      *)

(* Bounds *)

MaxPackets == 2        \* packets the server encodes in one frame

\* packet lengths the server encodes: the four mode lengths, one above the
\* full length, and lengths that are no mode's
PacketLengths == {0, 7, 8, 20, 28, 44, 100, 184}

(* The parser *)

Min(a, b) == IF a < b THEN a ELSE b

\* Buffer.readUInt16BE(offset) and Buffer.readUInt32BE(offset)
ReadUInt16BE(b, offset) == b[offset + 1] * 256 + b[offset + 2]

ReadUInt32BE(b, offset) ==
  ((b[offset + 1] * 256 + b[offset + 2]) * 256 + b[offset + 3]) * 256
  + b[offset + 4]

\* a read of w bytes at offset throws a RangeError
OutOfRange(b, offset, w) == offset + w > Len(b)

\* Buffer.slice(start, end): end is clamped to the buffer
BufferSlice(b, start, end) == SubSeq(b, start + 1, Min(end, Len(b)))

\* n bytes at offset reach into the buffer
ContainedInPart(b, offset, n) == offset < Len(b)

\* the negation of the loop's two break tests: n bytes at offset lie in
\* the buffer
Contained(b, offset, n) == ~(offset + n > Len(b))

\* the mode the tick is given
Mode(length) ==
  IF length = 8 THEN "ltp"
  ELSE IF length = 28 THEN "index_quote"
  ELSE IF length = 44 THEN "quote" ELSE "full"

\* the last byte the decoder reads of a packet; depth: the parser reads the
\* market depth of packets of 184 bytes and more (TickerService)
Reach(length, depth) ==
  IF depth /\ length >= 184 THEN 184 ELSE IF length >= 44 THEN 44 ELSE 8

\* readUInt32BE(offset) / 100.0: a price of the wire format, which counts
\* hundredths, as units and hundredths
Price(n) == [units |-> n \div 100, cents |-> n % 100]

\* the difference of two prices, in hundredths
Minus(p, q) == (p.units * 100 + p.cents) - (q.units * 100 + q.cents)

\* the fields every tick has
LtpFields(packet) ==
  [instrument_token |-> ReadUInt32BE(packet, 0),
   mode |-> Mode(Len(packet)),
   last_price |-> Price(ReadUInt32BE(packet, 4))]

\* the fields added for a packet of 44 bytes and more
QuoteFields(packet) ==
  [last_traded_quantity |-> ReadUInt32BE(packet, 8),
   average_traded_price |-> Price(ReadUInt32BE(packet, 12)),
   volume_traded |-> ReadUInt32BE(packet, 16),
   total_buy_quantity |-> ReadUInt32BE(packet, 20),
   total_sell_quantity |-> ReadUInt32BE(packet, 24),
   ohlc |-> [open |-> Price(ReadUInt32BE(packet, 28)),
             high |-> Price(ReadUInt32BE(packet, 32)),
             low |-> Price(ReadUInt32BE(packet, 36)),
             close |-> Price(ReadUInt32BE(packet, 40))],
   change |-> Minus(Price(ReadUInt32BE(packet, 4)),
                    Price(ReadUInt32BE(packet, 40)))]

\* one level of the market depth at depthOffset
DepthLevel(packet, depthOffset) ==
  [quantity |-> ReadUInt32BE(packet, depthOffset),
   price |-> Price(ReadUInt32BE(packet, depthOffset + 4)),
   orders |-> ReadUInt16BE(packet, depthOffset + 8)]

\* the fields TickerService adds for a packet of 184 bytes and more
FullFields(packet) ==
  [last_trade_time |-> ReadUInt32BE(packet, 44),
   oi |-> ReadUInt32BE(packet, 48),
   oi_day_high |-> ReadUInt32BE(packet, 52),
   oi_day_low |-> ReadUInt32BE(packet, 56),
   timestamp |-> ReadUInt32BE(packet, 60),
   depth |-> [buy |-> [j \in 1..5 |-> DepthLevel(packet, 64 + 12 * (j - 1))],
              sell |-> [j \in 1..5 |-> DepthLevel(packet, 124 + 12 * (j - 1))]]]

\* a decoder that stops after the price
TickLtpOnly(packet, depth) == LtpFields(packet)

\* the tick decoded from a packet of at least 8 bytes
Tick(packet, depth) ==
  LtpFields(packet)
  @@ (IF Len(packet) >= 44 THEN QuoteFields(packet) ELSE <<>>)
  @@ (IF depth /\ Len(packet) >= 184 THEN FullFields(packet) ELSE <<>>)

\* the value parseBinaryTicks returns, and whether through its catch
Returned(packets, caught) == [packets |-> packets, caught |-> caught]

RECURSIVE ParseLoop(_, _, _, _, _, _)
\* the for loop of parseBinaryTicks from iteration i at offset
ParseLoop(b, numPackets, i, offset, packets, depth) ==
  IF ~(i < numPackets) THEN Returned(packets, FALSE)
  ELSE IF ~Contained(b, offset, 2) THEN Returned(packets, FALSE)
  ELSE IF OutOfRange(b, offset, 2) THEN Returned(packets, TRUE)
  ELSE LET packetLength == ReadUInt16BE(b, offset)
           start == offset + 2
       IN  IF ~Contained(b, start, packetLength) THEN Returned(packets, FALSE)
           ELSE LET packet == BufferSlice(b, start, start + packetLength) IN
                IF Len(packet) >= 8
                THEN IF OutOfRange(packet, 0, Reach(Len(packet), depth))
                     THEN Returned(packets, TRUE)
                     ELSE ParseLoop(b, numPackets, i + 1, start + packetLength,
                                    Append(packets, Tick(packet, depth)), depth)
                ELSE ParseLoop(b, numPackets, i + 1, start + packetLength,
                               packets, depth)

\* parseBinaryTicks(buffer)
parseBinaryTicks(b, depth) ==
  IF Len(b) < 2 THEN Returned(<<>>, FALSE)
  ELSE ParseLoop(b, ReadUInt16BE(b, 0), 0, 2, <<>>, depth)

(* The frames of the server *)

\* the two bytes of a 16-bit field
UInt16BE(n) == <<n \div 256, n % 256>>

\* the k-th packet of a frame: its token is 100 + k, its price 50
Body(length, k) ==
  [i \in 1..length |-> IF i = 4 THEN 100 + k ELSE IF i = 8 THEN 50 ELSE 0]

RECURSIVE Wire(_, _)
\* the packets from the k-th on, each after its length field
Wire(lens, k) ==
  IF k > Len(lens) THEN <<>>
  ELSE UInt16BE(lens[k]) \o Body(lens[k], k) \o Wire(lens, k + 1)

\* a frame that declares n packets and carries those of lens
Encoded(n, lens) == UInt16BE(n) \o Wire(lens, 1)

\* the number of bytes up to the end of the k-th packet
EndOf(lens, k) == 2 + Len(Wire(SubSeq(lens, 1, k), 1))

\* how much of a frame of full bytes arrives: all of it, or a message cut in
\* the header, in a length field or in a body
Keeps(full) == {0, 1, 2, 3, full - 9, full - 1, full} \cap 0..full

\* the four bytes of a 32-bit field
UInt32BE(n) ==
  <<n \div 16777216, (n \div 65536) % 256, (n \div 256) % 256, n % 256>>

\* the values the server encodes are built from seeds; a seed of 66 gives
\* values of three bytes
Seeds == {0, 1, 66}

\* the value of field f for a seed: every field of a packet has its own
Known(seed, f) == seed * 1000 + f

\* the values of one packet: the fields at offsets 8..43 from seed qs, those
\* from offset 44 on, the ten depth levels included, from seed ds
KnownTick(ts, ps, qs, ds) ==
  [instrument_token |-> 101 + ts,
   last_price |-> Known(ps, 1),
   quote |-> [f \in 2..10 |-> Known(qs, f)],
   full |-> [f \in 11..15 |-> Known(ds, f)],
   levels |-> [j \in 1..10 |-> [quantity |-> Known(ds, 20 + j),
                                price |-> Known(ds, 40 + j),
                                orders |-> ds + j]]]

RECURSIVE Flat(_, _)
\* the byte groups from the k-th on, concatenated
Flat(groups, k) ==
  IF k > Len(groups) THEN <<>> ELSE groups[k] \o Flat(groups, k + 1)

\* the 184 bytes of a full packet with the values of known at the offsets
\* of the wire format
FullPacket(known) ==
  UInt32BE(known.instrument_token) \o UInt32BE(known.last_price)
  \o Flat([f \in 1..9 |-> UInt32BE(known.quote[f + 1])], 1)
  \o Flat([f \in 1..5 |-> UInt32BE(known.full[f + 10])], 1)
  \o Flat([j \in 1..10 |-> UInt32BE(known.levels[j].quantity)
                            \o UInt32BE(known.levels[j].price)
                            \o UInt16BE(known.levels[j].orders)
                            \o <<0, 0>>], 1)

\* the packet lengths of the modes ltp, quote and full
ModeLengths == {8, 44, 184}

\* a frame of one packet of a mode's length with known values has arrived
KnownArrived ==
  /\ \E ts \in Seeds, ps \in Seeds, qs \in Seeds, ds \in Seeds :
       \E length \in ModeLengths :
         /\ pbSent = [n |-> 1, lens |-> <<length>>, keep |-> 4 + length,
                      known |-> KnownTick(ts, ps, qs, ds)]
         /\ buffer = UInt16BE(1) \o UInt16BE(length)
                       \o SubSeq(FullPacket(KnownTick(ts, ps, qs, ds)), 1, length)
  /\ parsed = [by |-> "none", packets |-> <<>>, caught |-> FALSE]

\* the packets a frame may carry
PacketLists == UNION {[1..m -> PacketLengths] : m \in 0..MaxPackets}

NotParsed == [by |-> "none", packets |-> <<>>, caught |-> FALSE]

\* no binary message is being parsed
NoMessage ==
  /\ buffer = <<>>
  /\ parsed = NotParsed
  /\ pbSent = [n |-> 0, lens |-> <<>>, keep |-> 0]

\* a binary message has arrived
MessageArrived ==
  /\ \E n \in 0..(MaxPackets + 1), lens \in PacketLists :
       \E keep \in Keeps(Len(Encoded(n, lens))) :
         /\ pbSent = [n |-> n, lens |-> lens, keep |-> keep]
         /\ buffer = SubSeq(Encoded(n, lens), 1, keep)
  /\ parsed = NotParsed

(* Actions *)

\* TickerService.handleMessage hands the message to parseBinaryTicks
TkParse ==
  /\ parsed.by = "none"
  /\ parsed' = [by |-> "ticker",
                packets |-> parseBinaryTicks(buffer, TRUE).packets,
                caught |-> parseBinaryTicks(buffer, TRUE).caught]
  /\ UNCHANGED <<tkVars, trVars, alVars, buffer, pbSent>>

\* TokenTrackerService.handleMessage hands the message to parseBinaryTicks
TrParse ==
  /\ parsed.by = "none"
  /\ parsed' = [by |-> "tracker",
                packets |-> parseBinaryTicks(buffer, FALSE).packets,
                caught |-> parseBinaryTicks(buffer, FALSE).caught]
  /\ UNCHANGED <<tkVars, trVars, alVars, buffer, pbSent>>

ParserNext == TkParse \/ TrParse

----------------------------------------------------------------------------
(* handleMessage of either service *)

\* the messages of the server: a heartbeat, the text "{}", the text "{"
\* alone, and a quote packet of token 101 with price p and volume v
Heartbeat == <<0>>

JsonText == <<123, 125>>

JsonCut == <<123>>

QuoteFrame(p, v) ==
  UInt16BE(1) \o UInt16BE(44)
  \o SubSeq(FullPacket([instrument_token |-> 101, last_price |-> p,
                        quote |-> [f \in 2..10 |-> IF f = 4 THEN v ELSE 0],
                        full |-> [f \in 11..15 |-> 0],
                        levels |-> [j \in 1..10 |->
                                     [quantity |-> 0, price |-> 0, orders |-> 0]]]),
            1, 44)

\* a message with the header of a zlib stream that is no zlib stream: what
\* follows the header are the bytes of a quote frame
BadZlib == <<120, 156>> \o QuoteFrame(10000, 10)

\* the zlib stream of a quote frame, as the bytes the model gives it
Deflated == <<120, 218, 1>>

\* zlib.inflateSync(message): the bytes, or "throws"
inflateSync(message) ==
  IF message = Deflated THEN QuoteFrame(9700, 20) ELSE "throws"

\* JSON.parse(message.toString('utf8')) returns for the text "{}"; of the
\* messages of the server no other is a JSON text
JsonParses(message) == message = JsonText

\* the message is a zlib stream by its first two bytes
ZlibHeader(message) ==
  Len(message) >= 2 /\ message[1] = 120 /\ message[2] \in {156, 1, 218}

\* handleMessage that passes a message on to the parser when inflateSync
\* has thrown
handleMessageUninflated(message, depth) ==
  IF Len(message) > 0 /\ message[1] = 123 /\ JsonParses(message)
  THEN [kind |-> "text", ticks |-> <<>>]
  ELSE IF Len(message) = 1 /\ message[1] = 0
  THEN [kind |-> "heartbeat", ticks |-> <<>>]
  ELSE [kind |-> "binary",
        ticks |-> parseBinaryTicks(
                    IF ZlibHeader(message) /\ inflateSync(message) # "throws"
                    THEN inflateSync(message) ELSE SubSeq(message, 3, Len(message)),
                    depth).packets]

\* handleMessage up to processTicks: the kind of message and the ticks
\* handed to processTicks
handleMessage(message, depth) ==
  IF Len(message) > 0 /\ message[1] = 123 /\ JsonParses(message)
  THEN [kind |-> "text", ticks |-> <<>>]
  ELSE IF Len(message) = 1 /\ message[1] = 0
  THEN [kind |-> "heartbeat", ticks |-> <<>>]
  ELSE IF ZlibHeader(message) /\ inflateSync(message) = "throws"
  THEN [kind |-> "discarded", ticks |-> <<>>]
  ELSE [kind |-> "binary",
        ticks |-> parseBinaryTicks(
                    IF ZlibHeader(message) THEN inflateSync(message) ELSE message,
                    depth).packets]

\* the fields of a decoded tick that processTicks of the tracker reads, the
\* price in hundredths; a tick without volume compares like volume 0
Read(tick) ==
  [instrument_token |-> tick.instrument_token,
   last_price |-> tick.last_price.units * 100 + tick.last_price.cents,
   volume_traded |-> IF "volume_traded" \in DOMAIN tick
                     THEN tick.volume_traded ELSE 0]

Messages ==
  {Heartbeat, JsonText, JsonCut, BadZlib, Deflated,
   QuoteFrame(10000, 10), QuoteFrame(9700, 20)}

\* the 'message' handler of the tracker on a message that arrives dt ms
\* after the last one
TrMessage(message, dt) ==
  \E r \in {handleMessage(message, FALSE)} :
  \E frame \in {[i \in DOMAIN r.ticks |-> Read(r.ticks[i])]} :
      /\ alHist.ticks + Len(frame) <= MaxTicks
      /\ now + dt <= MaxTicks * (TIME_WINDOW + 1)
      /\ now' = now + dt
      /\ buffer' = message
      /\ parsed' = [by |-> "tracker", packets |-> r.ticks,
                    caught |-> r.kind = "discarded"]
      /\ IF Len(frame) > 0
         THEN LET h == [StepHist(alHist, frame) EXCEPT !.ticks = @ + Len(frame)]
                  st == ProcessTicks(TickState(stockData, alChecks, h), frame, 1,
                                     now', alertChannel)
              IN  /\ stockData' = st.data
                  /\ alChecks' = st.checks
                  /\ alHist' = st.h
         ELSE UNCHANGED <<stockData, alChecks, alHist>>
      /\ UNCHANGED <<tkVars, trVars, pbSent, previousData, alertChannel>>

\* the 'message' handler of the ticker on socket s
TkBinaryMessage(s, message) ==
  \E r \in {handleMessage(message, TRUE)} :
  /\ tkSockets[s].st \in {"open", "closing"}
  /\ buffer' = message
  /\ parsed' = [by |-> "ticker", packets |-> r.ticks,
                caught |-> r.kind = "discarded"]
  /\ ticker' =
       IF Len(r.ticks) > 0
       THEN [ticker EXCEPT
               !.subscriptionConfirmed = TRUE,
               !.stockData = @ \cup
                 {sym \in DOMAIN instrumentsCache :
                    \E i \in DOMAIN r.ticks :
                      instrumentsCache[sym] = r.ticks[i].instrument_token}]
       ELSE ticker
  /\ UNCHANGED <<trVars, alVars, pbSent, tkSockets, tkReconnectTimers, tkLoading,
                 tkStartTimers, tkIntervals, tkCycles, tkAddPending, tkAuthPc,
                 subsFile, subscribedStocks, tkHist>>

FramesNext ==
  \/ \E message \in Messages, dt \in Delays : TrMessage(message, dt)
  \/ \E s \in DOMAIN tkSockets, message \in Messages : TkBinaryMessage(s, message)
  \/ \E i \in DOMAIN alChecks, ok \in BOOLEAN : TrAlertSettles(i, ok)

----------------------------------------------------------------------------
(* Specifications *)

Init == TickerInit /\ TrackerInit /\ AlertInit /\ NoMessage

\* the ticker application in a run with no registry command and no
\* credential rotation
SpecSession == Init /\ [][SessionNext]_vars

\* the ticker application in a run with no credential rotation
SpecRegistry == Init /\ [][SessionNext \/ CommandNext]_vars

\* the ticker application in a run with no registry command
SpecRestart == Init /\ [][SessionNext \/ RotationNext]_vars

\* the ticker application with user commands and the tick feed
SpecFeed == Init /\ [][SessionNext \/ CommandNext \/ FeedNext]_vars

\* the tracker application between two firings of the cron callback
SpecTracker == Init /\ [][TrSessionNext \/ TrPublisherNext]_vars

\* the tracker application with the daily cron callback, which fires after
\* start() has returned, in a run whose snapshot stays empty long enough
\* for no publish cycle to start
SpecRotation == Init /\ [][TrSessionNext \/ TrCronFires]_vars

\* the tracker application with the daily cron callback firing at any time
\* after it was registered
SpecStartup == Init /\ [][TrSessionNext \/ TrCronFires \/ TrCronFiresEarly]_vars

\* snapshot sizes around the chunk size
SnapshotSizes ==
  { 1, STOCKS_PER_MESSAGE - 1, STOCKS_PER_MESSAGE, STOCKS_PER_MESSAGE + 1,
    2 * STOCKS_PER_MESSAGE, MaxEntries }

\* the tracker application after a start with a valid credential and a
\* token.json that lists the catalogued tokens `tokens`: the session is
\* open and subscribed, the publish timer runs, the tokens of `data` have
\* received a tick, and loadExistingMessages had found k tracker messages
PublishingOf(tokens, data, k) ==
  /\ tracker = [ws |-> 1, tokens |-> tokens, mapped |-> Range(tokens),
                stockData |-> data, discordMessages |-> 0..(k - 1),
                updateInterval |-> TRUE, isConnected |-> TRUE]
  /\ trSockets = << [TrNewSocket("boot", 0, 0) EXCEPT
                       !.st = "open", !.pc = "done",
                       !.frames = << TrFrame("subscribe", "", tokens),
                                     TrFrame("mode", "quote", tokens) >>] >>
  /\ trProc = [p \in Procs |->
                 [pc |-> IF p = "boot" THEN "done" ELSE "idle"] @@ NoRun]
  /\ trStartTimers = 0
  /\ trIntervals = 1
  /\ trCycles = <<>>
  /\ accessToken = 0
  /\ zerodhaConnected = TRUE
  /\ tokenFile = [i \in 1..Len(tokens) |->
                    [str |-> FALSE, chars |-> <<>>, num |-> tokens[i]]]
  /\ trHist = [signalled |-> FALSE, dropped |-> FALSE, cronRuns |-> 0,
               persists |-> 0, stops |-> 0, last |-> RunRecord(NoRun, TrackerNew),
               lastClean |-> FALSE, stopped |-> FALSE]

\* token.json lists n tokens in descending order, so that the position of
\* a token in the list and its number order the entries differently
Descending(n) == [i \in 1..n |-> 100 + n + 1 - i]

\* every token of the list has received a tick
Publishing(n, k) == PublishingOf(Descending(n), Range(Descending(n)), k)

\* the publisher of a tracker whose snapshot does not change
PublisherInit ==
  TickerInit /\ AlertInit /\ NoMessage /\ \E n \in SnapshotSizes, k \in 0..1 : Publishing(n, k)

SpecPublisher == PublisherInit /\ [][TrPublisherNext]_vars

\* the token lists of n entries a token.json may hold: ascending,
\* descending, and descending with the first token repeated at the end
TokenLists(n) ==
  { [i \in 1..n |-> 100 + i],
    Descending(n),
    [i \in 1..n |-> IF i = n THEN 100 + n ELSE 100 + n + 1 - i] }

\* the snapshots a list of tokens may have led to: every token has
\* received a tick, every token but the first of the list, or the tokens
\* with an even number only
Snapshots(tokens) ==
  { Range(tokens),
    Range(tokens) \ {tokens[1]},
    {x \in Range(tokens) : x % 2 = 0} } \ {{}}

\* the publisher with a sink that answers before the timer fires again; the
\* channel held no tracker message, one, or the two of an earlier session
\* that published two pages
PagesInit ==
  /\ TickerInit
  /\ AlertInit
  /\ NoMessage
  /\ \E n \in SnapshotSizes, k \in 0..2 :
       \E tokens \in TokenLists(n) :
         \E data \in Snapshots(tokens) : PublishingOf(tokens, data, k)

\* a cycle starts when none is in flight
PagesNext ==
  \/ trCycles = <<>> /\ TrIntervalFires
  \/ \E ok \in BOOLEAN : TrCycleStep(1, ok)

\* the pages of the publish cycles, one cycle at a time: what a page holds
\* is computed from the locals of its cycle
SpecPages == PagesInit /\ [][PagesNext]_vars

\* the ticker application whose start() found no valid credential and
\* which a signal has stopped: no handler of the ticker runs any more
TickerParked ==
  /\ ticker = [ws |-> 0, subscribedTokens |-> <<>>, stockData |-> {},
               tickerMessage |-> FALSE, updateInterval |-> FALSE,
               isConnected |-> FALSE, reconnectAttempts |-> 0,
               subscriptionConfirmed |-> FALSE]
  /\ tkSockets = <<>>
  /\ tkReconnectTimers = 0
  /\ tkLoading = {}
  /\ tkStartTimers = 0
  /\ tkIntervals = 0
  /\ tkCycles = <<>>
  /\ tkAddPending = {}
  /\ tkAuthPc = "idle"
  /\ subsFile = InitialSubscriptions
  /\ subscribedStocks = InitialSubscriptions
  /\ tkHist = [started |-> TRUE, stopped |-> "disconnected", gaveUp |-> FALSE,
               commands |-> 0, rotations |-> 0, closeTokens |-> {},
               removed |-> {}, written |-> TRUE, result |-> NoResult]

\* the ticker application when initialize() has returned: connected and
\* subscribed, the publish timer pending
TickerStreaming ==
  /\ ticker = [ws |-> 1, subscribedTokens |-> <<101>>, stockData |-> {},
               tickerMessage |-> FALSE, updateInterval |-> FALSE,
               isConnected |-> TRUE, reconnectAttempts |-> 0,
               subscriptionConfirmed |-> FALSE]
  /\ tkSockets = << [NewSocket("app") EXCEPT
                       !.st = "open", !.pc = "done", !.toks = <<101>>,
                       !.frames = <<Frame("subscribe", <<101>>),
                                    Frame("mode", <<101>>)>>] >>
  /\ tkReconnectTimers = 0
  /\ tkLoading = {}
  /\ tkStartTimers = 1
  /\ tkIntervals = 0
  /\ tkCycles = <<>>
  /\ tkAddPending = {}
  /\ tkAuthPc = "idle"
  /\ subsFile = InitialSubscriptions
  /\ subscribedStocks = InitialSubscriptions
  /\ tkHist = [started |-> TRUE, stopped |-> "no", gaveUp |-> FALSE,
               commands |-> 0, rotations |-> 0, closeTokens |-> {},
               removed |-> {}, written |-> TRUE, result |-> NoResult]

\* both services receiving messages
FramesInit == TickerStreaming /\ TrackerInit /\ NoMessage /\ AlertStart(TRUE)

SpecFrames == FramesInit /\ [][FramesNext]_vars

\* snapshots of one page and of two pages
SinkSizes == {1, STOCKS_PER_MESSAGE + 1}

\* either application with its publisher: the ticker application from its
\* start, or the tracker application publishing its snapshot
SinksInit ==
  /\ AlertInit
  /\ NoMessage
  /\ \/ TickerInit /\ TrackerInit
     \/ TickerParked /\ \E n \in SinkSizes, k \in 0..1 : Publishing(n, k)

\* the sessions of the ticker with its publish cycles, and the publish
\* cycles of the tracker
SpecSinks ==
  SinksInit /\ [][SessionNext \/ TkPublisherNext \/ TrPublisherNext]_vars

\* the ticks of a connected tracker and the alerts they raise
AlertsInit ==
  TickerInit /\ TrackerInit /\ NoMessage /\ \E chan \in BOOLEAN : AlertStart(chan)

SpecAlerts == AlertsInit /\ [][AlertNext]_vars

\* one binary message and the parser of either service
ParserInit == TickerInit /\ TrackerInit /\ AlertInit /\ MessageArrived

SpecParser == ParserInit /\ [][ParserNext]_vars

\* one binary message of one packet with known values, and the parser of
\* either service
DecoderInit == TickerInit /\ TrackerInit /\ AlertInit /\ KnownArrived

SpecDecoder == DecoderInit /\ [][ParserNext]_vars

----------------------------------------------------------------------------
(* Claims about the TickerService session *)

\* C2: after stop() on a connected session the session is idle and stays
\* idle: no reconnect is scheduled and no WebSocket is connecting or open
\* until initialize() or restart() is called.
C2_StopStaysIdle ==
  tkHist.stopped = "connected" =>
    /\ tkReconnectTimers = 0
    /\ \A s \in DOMAIN tkSockets : tkSockets[s].st \in {"closing", "closed"}

\* C5: reconnectAttempts stays within 0..10, and at 10 a further close
\* schedules no reconnect.
C5_AttemptsCapped ==
  /\ [](ticker.reconnectAttempts \in 0..maxReconnectAttempts)
  /\ [][ticker.reconnectAttempts = maxReconnectAttempts
          => tkReconnectTimers' <= tkReconnectTimers]_vars

\* C5 witness: the cap was hit: ten attempts failed, the close of the tenth
\* scheduled nothing
C5_Witness ==
  /\ tkHist.gaveUp
  /\ ticker.reconnectAttempts = maxReconnectAttempts
  /\ tkReconnectTimers = 0

\* C6: the step in which the session gives up at the cap requests a
\* credential rotation (a performAutoLogin run starts).
C6_GiveUpEscalates ==
  [][(~tkHist.gaveUp /\ tkHist'.gaveUp)
       => tkHist'.rotations = tkHist.rotations + 1]_vars

\* C7: a reconnect attempt whose socket did not open within the 10 s timeout
\* leaves a reconnect scheduled while the counter is below 10.
C7_TimeoutReschedules ==
  \A s \in DOMAIN tkSockets :
    (/\ tkSockets[s].by = "reconnect"
     /\ tkSockets[s].st = "connecting"
     /\ tkSockets[s].pc = "ended"
     /\ ticker.reconnectAttempts < maxReconnectAttempts)
    => tkReconnectTimers > 0

\* C3: after a transport close of a connected, subscribed session the
\* reconnect's subscribe frame carries the token set that was subscribed
\* immediately before the close, tokens added by addStock included.
C3_ResubscribesCloseSet ==
  \A s \in DOMAIN tkSockets : \A c \in tkHist.closeTokens :
    (/\ tkSockets[s].by = "reconnect" /\ tkSockets[s].st = "open"
     /\ tkSockets[s].pc \in {"subpause", "done"})
    => Range(tkSockets[s].toks) = Range(c)

----------------------------------------------------------------------------
(* Claims about the tracker application *)

\* C1: publish cycles of TokenTrackerService never overlap: no cycle begins
\* its work while an earlier updateDiscordMessages invocation still has a
\* send, an edit or its spacer pending.
C1_CyclesNeverOverlap == Len(trCycles) <= 1

\* C4: a transport close of the open tracker session schedules a reconnect:
\* once the session dropped, a socket is connecting or open, or an
\* initialize() is on its way to connectWebSocket.
C4_CloseSchedulesReconnect ==
  trHist.dropped =>
    \/ \E s \in DOMAIN trSockets : trSockets[s].st \in {"connecting", "open"}
    \/ \E p \in Procs : trProc[p].pc \in {"load", "instruments"}

\* C8 as claimed: every performAutoLogin run and every stop() leaves the
\* tracked token list as it was, and token.json is never written.
C8_RunKeepsTokens ==
  /\ [](trHist.last.outcome # "none" => trHist.last.after = trHist.last.before)
  /\ [][trHist'.stops # trHist.stops => tracker'.tokens = tracker.tokens]_vars
  /\ [][tokenFile' = tokenFile]_vars

\* C8, amended: stop() never changes the tracked token list and token.json
\* is never written; a performAutoLogin run ends with the list it started
\* with, or, when it started before the list was first loaded, with the list
\* read from token.json.
C8_RotationPreservesTokens ==
  /\ [](trHist.last.outcome # "none" =>
          \/ trHist.last.after = trHist.last.before
          \/ /\ trHist.last.before = <<>>
             /\ trHist.last.after = LoadTokens(tokenFile))
  /\ [][trHist'.stops # trHist.stops => tracker'.tokens = tracker.tokens]_vars
  /\ [][tokenFile' = tokenFile]_vars

\* C8 witness: a successful run that started with a loaded list has stopped
\* and initialized the tracker
C8_Witness ==
  /\ trHist.last.outcome = "success"
  /\ trHist.last.before # <<>>
  /\ trHist.stops > 0

\* the order of a successful rotation
RotationOrder ==
  <<"persist", "validate", "stop", "pause", "initialize", "connect", "subscribe">>

\* C9: a successful performAutoLogin persists the credential, validates the
\* profile, stops the tracker, pauses and initializes it (connect, then
\* subscribe with the list of token.json), in this order; every socket is
\* created with the credential persisted last.
C9_RotationOrder ==
  /\ \A p \in Procs : IsPrefix(trProc[p].steps, RotationOrder)
  /\ \A s \in DOMAIN trSockets :
       /\ trSockets[s].cred = trSockets[s].born
       /\ \A i \in DOMAIN trSockets[s].frames :
            trSockets[s].frames[i].v = LoadTokens(tokenFile)

\* C9 witness: a rotation went through all its steps and its socket carries
\* the new credential and the subscribe frame
C9_Witness ==
  \E p \in Procs, s \in DOMAIN trSockets :
    /\ trProc[p].steps = RotationOrder
    /\ trSockets[s].by = p
    /\ trSockets[s].cred > 0
    /\ trSockets[s].frames # <<>>

\* a step of performAutoLogin in a run whose login fails: its start, and
\* the return of login()
FailedRunStep ==
  \E p \in Procs :
    \/ trProc[p].pc # "login" /\ trProc'[p].pc = "login"
    \/ /\ trProc[p].pc = "login"
       /\ trProc'[p].pc \notin {"login", "validate"}
       /\ trHist'.last.outcome = "failure"

\* C10: when login reports failure, login was invoked once, one failure
\* message went to the audit sink, and no step of the run touched the
\* tracker's socket, flag, timers, handles, snapshot or token list.
C10_FailureLeavesTracker ==
  /\ [](\A p \in Procs : trProc[p].logins <= 1)
  /\ [](trHist.last.outcome = "failure" =>
          /\ trHist.last.logins = 1
          /\ trHist.last.msgs = <<"started", "failed">>)
  /\ [][FailedRunStep =>
          UNCHANGED <<tracker, trSockets, trStartTimers, trIntervals, trCycles>>]_vars

\* C10 witness: a login failed while the tracker was connected, publishing
\* and holding data
C10_Witness ==
  /\ trHist.last.outcome = "failure"
  /\ tracker.isConnected
  /\ tracker.updateInterval
  /\ tracker.stockData # {}

\* performAutoLogin of process p logs "Token Tracker Restarted" in this step:
\* the initialize() it awaited returns
RestartReported(p) ==
  /\ trProc[p].stage = "auth"
  /\ trProc[p].pc \in {"instruments", "await", "subpause"}
  /\ trProc'[p].stage # "auth"

\* C11: the rotation-completed message is emitted only when the feed session
\* has been restarted: at that moment the tracker is connected and its
\* socket has been sent the subscribe frame.
C11_CompletedAfterRestart ==
  [][\A p \in Procs :
       RestartReported(p) =>
         /\ tracker'.isConnected
         /\ tracker'.ws \in DOMAIN trSockets'
         /\ \E i \in DOMAIN trSockets'[tracker'.ws].frames :
              trSockets'[tracker'.ws].frames[i].a = "subscribe"]_vars

\* C12: whenever the credential is found rejected (here: the server refuses
\* the WebSocket handshake of the ticker) the rotation is triggered at once:
\* performAutoLogin is running when the handler has returned.
C12_RejectionTriggersRotation ==
  [][(\E s \in DOMAIN tkSockets :
        tkSockets[s].st = "connecting" /\ TkSockFails(s))
     => tkAuthPc' # "idle"]_vars

----------------------------------------------------------------------------
(* Claims about processTicks and the alert rules *)

\* the adjacent (old, new) entry pairs that the ticks of frame, from the
\* i-th on, add to the history of the snapshot data: a tracked token's new
\* entry paired with the entry it replaces
RECURSIVE AdjacentPairs(_, _, _, _)
AdjacentPairs(data, frame, i, t) ==
  IF i > Len(frame) THEN <<>>
  ELSE LET token == frame[i].instrument_token
           new == Entry(frame[i], t)
       IN  IF token \notin tokenToSymbolMap
           THEN AdjacentPairs(data, frame, i + 1, t)
           ELSE (IF token \in DOMAIN data
                 THEN <<[token |-> token, old |-> data[token], new |-> new]>>
                 ELSE <<>>)
                \o AdjacentPairs(MapSet(data, token, new), frame, i + 1, t)

\* the number of alerts of a type that the checks have handed to the sink
SentCount(checks, type) ==
  Cardinality({ x \in (DOMAIN checks) \X (1..4) :
                  /\ x[2] <= Len(checks[x[1]].sent)
                  /\ checks[x[1]].sent[x[2]] = type })

\* the alerts of a type handed to the sink in this step
SentInStep(type) ==
  SentCount(alChecks' \o alHist'.done, type) - SentCount(alChecks, type)

\* the pairs of this step
PairsInStep == AdjacentPairs(stockData, alHist'.frame, 1, now')

VolumeDoubled(c) == c.old.volume > 0 /\ c.new.volume >= 2 * c.old.volume

\* C14 as stated: the volume rule has no time guard: with the alert channel
\* available, the check of every pair whose volume at least doubled has
\* sent a VOLUME_SPIKE alert when it returns, whatever the time between
\* the two entries.
C14_VolumeRuleUnguarded ==
  alertChannel =>
    \A i \in DOMAIN alHist.done :
      VolumeDoubled(alHist.done[i]) =>
        Includes(alHist.done[i].sent, "VOLUME_SPIKE")

\* C14, amended: the time window guards the volume rule too: with the alert
\* channel available, a check that returns has sent a VOLUME_SPIKE alert,
\* and only one, exactly when the volume of its pair at least doubled and
\* the entries are at most 300 s apart.
C14_VolumeRuleInWindow ==
  alertChannel =>
    \A i \in DOMAIN alHist.done :
      LET c == alHist.done[i] IN
      SentCount(<<c>>, "VOLUME_SPIKE") =
        IF VolumeDoubled(c) /\ c.new.timestamp - c.old.timestamp <= 300 * 1000
        THEN 1 ELSE 0

\* a pair whose volume doubled more than 300 s apart was checked and raised
\* nothing
C14_Witness ==
  /\ alertChannel
  /\ \E i \in DOMAIN alHist.done :
       /\ VolumeDoubled(alHist.done[i])
       /\ alHist.done[i].new.timestamp - alHist.done[i].old.timestamp > 300000
       /\ alHist.done[i].sent = <<>>

\* the alerts of the pair (old, new), rule by rule in the order of the
\* rules: the price rules within the time window, the volume rule as the
\* code guards it
AlertsOf(old, new) ==
  LET within == new.timestamp - old.timestamp <= 300 * 1000
      change == 100 * (new.last_price - old.last_price)
  IN  (IF within /\ change <= (-3) * old.last_price THEN <<"CRASH">> ELSE <<>>)
      \o (IF within /\ change >= 3 * old.last_price THEN <<"SPIKE">> ELSE <<>>)
      \o (IF within /\ old.volume > 0 /\ new.volume >= 2 * old.volume
          THEN <<"VOLUME_SPIKE">> ELSE <<>>)

\* C15: for one delta the rules are evaluated independently and in a fixed
\* order, each rule that holds yields exactly one alert, CRASH and SPIKE
\* never both, and the alerts reach the sink in that order (CRASH or SPIKE
\* before VOLUME_SPIKE): with the alert channel available, what a check has
\* sent is at any time the alerts of its pair up to the one it awaits, and
\* all of them when it returns.
C15_RuleOrder ==
  alertChannel =>
    /\ \A i \in DOMAIN alChecks :
         LET c == alChecks[i] IN
         /\ IsPrefix(c.sent, AlertsOf(c.old, c.new))
         /\ c.sent # <<>>
         /\ c.pc = c.sent[Len(c.sent)]
         /\ ~(Includes(c.sent, "CRASH") /\ Includes(c.sent, "SPIKE"))
    /\ \A i \in DOMAIN alHist.done :
         LET c == alHist.done[i] IN
         /\ c.sent = AlertsOf(c.old, c.new)
         /\ ~(Includes(c.sent, "CRASH") /\ Includes(c.sent, "SPIKE"))

\* the check of a delta for which the spike rule and the volume rule hold
\* returned, having sent SPIKE and then VOLUME_SPIKE
C15_Witness ==
  /\ alertChannel
  /\ \E i \in DOMAIN alHist.done :
       /\ alHist.done[i].sent = <<"SPIKE", "VOLUME_SPIKE">>
       /\ ~alHist.done[i].failed

\* no alert of check c was handed to the sink twice
SentOnce(c) == \A k \in DOMAIN AlertTypes : SentCount(<<c>>, AlertTypes[k]) <= 1

\* a send settles in this step
SendSettles == alChecks' # alChecks /\ now' = now

\* C16: alert delivery is best-effort: an alert is handed to the sink at
\* most once, also when its send failed; the failure stays inside sendAlert
\* (the snapshot and the other checks are as they were) and the remaining
\* alerts of the same delta are still attempted.
C16_BestEffort ==
  /\ [](/\ \A i \in DOMAIN alChecks : SentOnce(alChecks[i])
        /\ \A i \in DOMAIN alHist.done :
             LET c == alHist.done[i] IN
             /\ SentOnce(c)
             /\ (c.failed /\ alertChannel) => c.sent = AlertsOf(c.old, c.new))
  /\ [][SendSettles =>
          /\ stockData' = stockData
          /\ previousData' = previousData
          /\ Len(alChecks') >= Len(alChecks) - 1
          /\ \E i \in DOMAIN alChecks :
               \A j \in DOMAIN alChecks \ {i} :
                 alChecks[j] = alChecks'[IF j < i \/ Len(alChecks') = Len(alChecks)
                                         THEN j ELSE j - 1]]_vars

\* the CRASH send of a delta failed and its VOLUME_SPIKE alert was sent
\* nevertheless, while the snapshot still holds the entry of the delta
C16_Witness ==
  \E i \in DOMAIN alChecks :
    /\ alChecks[i].failed
    /\ alChecks[i].sent = <<"CRASH", "VOLUME_SPIKE">>
    /\ alChecks[i].token \in DOMAIN stockData
    /\ stockData[alChecks[i].token] = alChecks[i].new

\* the last tick of a token in a frame
LastOf(frame, token) ==
  frame[CHOOSE i \in DOMAIN frame :
          /\ frame[i].instrument_token = token
          /\ \A j \in DOMAIN frame :
               frame[j].instrument_token = token => j <= i]

\* C17: processTicks applies the ticks of a frame in wire order, and for
\* every tick of a tracked token it invokes the alert check exactly when
\* the snapshot held an entry of the token, with that entry (the one stored
\* immediately before) as old and the entry just stored as new; the first
\* tick of a token after the start or after stop() invokes no check.
C17_ChecksFollowTicks ==
  [][alHist'.ticks # alHist.ticks =>
       LET frame == alHist'.frame IN
       /\ alHist'.invoked = PairsInStep
       /\ \A i \in DOMAIN frame :
            (/\ frame[i].instrument_token \notin DOMAIN stockData
             /\ \A j \in 1..(i - 1) :
                  frame[j].instrument_token # frame[i].instrument_token)
            => \A k \in DOMAIN alHist'.invoked :
                 alHist'.invoked[k].token = frame[i].instrument_token
                 => alHist'.invoked[k].old.timestamp = now'
       /\ \A token \in tokenToSymbolMap :
            IF \E i \in DOMAIN frame : frame[i].instrument_token = token
            THEN /\ token \in DOMAIN stockData'
                 /\ stockData'[token] = Entry(LastOf(frame, token), now')
            ELSE /\ token \in DOMAIN stockData' <=> token \in DOMAIN stockData
                 /\ token \in DOMAIN stockData =>
                      stockData'[token] = stockData[token]]_vars

\* a frame carried two ticks of a token that already had an entry: two
\* checks were invoked, the second with the entry of the first tick as old
C17_Witness ==
  /\ Len(alHist.frame) = 2
  /\ Len(alHist.invoked) = 2
  /\ alHist.invoked[1].token = alHist.invoked[2].token
  /\ alHist.invoked[1].old.timestamp < alHist.invoked[1].new.timestamp
  /\ alHist.invoked[2].old = alHist.invoked[1].new
  /\ alHist.invoked[2].new # alHist.invoked[1].new
  /\ stockData[alHist.invoked[2].token] = alHist.invoked[2].new

\* C18: previousData holds an entry of token t exactly when at least two
\* ticks of t were applied since the snapshot was last cleared.
C18_PreviousAfterTwoTicks ==
  \A token \in tokenToSymbolMap :
    token \in DOMAIN previousData <=> alHist.applied[token] >= 2

----------------------------------------------------------------------------
(* Claims about the publisher *)

\* the entries of pages, page after page
RECURSIVE Flatten(_, _)
Flatten(pages, i) ==
  IF i > Len(pages) THEN <<>> ELSE pages[i] \o Flatten(pages, i + 1)

\* C20: a snapshot of N >= 1 entries is published as exactly ceil(N / 50)
\* pages of at most 50 entries each, all but the last of exactly 50, and
\* every entry is on exactly one page.
C20_Pages ==
  \A c \in Range(trCycles) :
    LET N == Cardinality(tracker.stockData)
        pages == c.chunks
        all == Flatten(pages, 1)
    IN  /\ N >= 1
        /\ c.n = Len(pages)
        /\ 50 * (Len(pages) - 1) < N
        /\ N <= 50 * Len(pages)
        /\ \A p \in DOMAIN pages :
             /\ Len(pages[p]) >= 1
             /\ Len(pages[p]) <= 50
             /\ p < Len(pages) => Len(pages[p]) = 50
        /\ Len(all) = N
        /\ Range(all) = tracker.stockData

\* a snapshot of 120 entries is being published on pages of 50, 50 and 20
\* entries, the cycle having come to the last page
C20_Witness ==
  /\ Cardinality(tracker.stockData) = 120
  /\ \E i \in DOMAIN trCycles :
       /\ Len(trCycles[i].chunks) = 3
       /\ Len(trCycles[i].chunks[1]) = 50
       /\ Len(trCycles[i].chunks[2]) = 50
       /\ Len(trCycles[i].chunks[3]) = 20
       /\ trCycles[i].idx = 2

\* the sortedData of the cycles in flight: the publisher runs on a snapshot
\* and a token list that do not change, so sortedData is what it was when
\* each cycle started
SortedNow == {SortedData(tracker)}

\* token a stands before token b in the token list
Before(a, b) ==
  \E q \in 2..Len(tracker.tokens) :
    /\ tracker.tokens[q] = b
    /\ \E p \in 1..(q - 1) : tracker.tokens[p] = a
    /\ \A p \in 1..(q - 1) : tracker.tokens[p] # b

\* the pages cycle c has built so far, the one it is at being the last
PagesOf(sortedData, c) ==
  [i \in 1..(c.idx + 1) |-> RenderPage(sortedData, c.chunks, i - 1)]

\* the lines of pages, read page after page
RECURSIVE LinesOf(_, _)
LinesOf(pages, i) ==
  IF i > Len(pages) THEN <<>> ELSE pages[i].lines \o LinesOf(pages, i + 1)

\* C21: in every publish cycle, reading the pages in ascending page index
\* lists the snapshot entries in ascending order of their token's position
\* in the token list; the k-th entry overall is rendered with index k
\* (1..N, no gap, no repeat), page i carries the header number i+1 of the
\* total page count, and only the last page carries the trailer.
C21_PageOrder ==
  \A sortedData \in SortedNow, n \in DOMAIN trCycles :
    \A pages \in {PagesOf(sortedData, trCycles[n])} :
      \A lines \in {LinesOf(pages, 1)} :
        LET c == trCycles[n]
            N == Cardinality(tracker.stockData)
        IN  /\ \A i \in DOMAIN pages :
                 /\ pages[i].header = <<i, ChunkCount(N)>>
                 /\ pages[i].trailer <=> i = ChunkCount(N)
                 /\ Len(pages[i].lines) >= 1
            /\ \A k \in DOMAIN lines :
                 /\ lines[k].index = k
                 /\ lines[k].token \in tracker.stockData
                 /\ k < Len(lines) => Before(lines[k].token, lines[k + 1].token)
            /\ Len(lines) <= N
            /\ pages[Len(pages)].trailer => Len(lines) = N

\* a cycle is at the last of the three pages of a snapshot of 119 entries,
\* the first token of a descending list of 120 having received no tick: the
\* page starts with index 101, the first page starts with the second token
\* of the list, and the last line is that of the last token
C21_Witness ==
  /\ tracker.tokens = Descending(120)
  /\ Cardinality(tracker.stockData) = 119
  /\ \E sortedData \in SortedNow, c \in Range(trCycles) :
       LET pages == PagesOf(sortedData, c) IN
       /\ c.idx = 2
       /\ pages[1].lines[1] = [index |-> 1, token |-> 219]
       /\ pages[3].lines[1].index = 101
       /\ pages[3].lines[19] = [index |-> 119, token |-> 101]
       /\ pages[3].trailer
       /\ ~pages[2].trailer

\* the send or the edit that cycle i of the tracker awaits fails in this step
TrSinkFails(i) == trCycles[i].pc \in {"send", "edit"} /\ TrCycleStep(i, FALSE)

\* the send or the edit that cycle i of the ticker awaits fails in this step
TkSinkFails(i) == TkCycleStep(i, FALSE)

\* C22: a failure of a sink send or edit during publishing changes
\* message-handle state only: the WebSocket, the connection flag, the
\* subscribed token list, the snapshot and the publish timer are unchanged,
\* and the next timer fire still runs a publish cycle: what the timer
\* callback reads before it starts a cycle (the live timer, the snapshot,
\* the cycles in flight, which the model bounds) is as it was or lower.
C22_SinkFailureFrame ==
  /\ [][\A i \in DOMAIN trCycles :
          TrSinkFails(i) =>
            /\ tracker' = [tracker EXCEPT !.discordMessages = tracker'.discordMessages]
            /\ tracker'.discordMessages \subseteq tracker.discordMessages
            /\ trSockets' = trSockets
            /\ trIntervals' = trIntervals
            /\ trStartTimers' = trStartTimers
            /\ Len(trCycles') <= Len(trCycles)]_vars
  /\ [][\A i \in DOMAIN tkCycles :
          TkSinkFails(i) =>
            /\ ticker' = [ticker EXCEPT !.tickerMessage = FALSE]
            /\ tkSockets' = tkSockets
            /\ tkIntervals' = tkIntervals
            /\ tkStartTimers' = tkStartTimers
            /\ tkReconnectTimers' = tkReconnectTimers
            /\ Len(tkCycles') < Len(tkCycles)]_vars

\* the edit of page 0 failed in a cycle of the tracker that has gone on to
\* page 1, and the timer has fired since: the cycle it started found no
\* handle for page 0 and sends the page anew.  The session is open and
\* holds its snapshot, and the timer is live
C22_Witness ==
  /\ \E i, j \in DOMAIN trCycles :
       /\ i < j
       /\ ~trCycles[i].clean /\ trCycles[i].idx = 1
       /\ trCycles[j].idx = 0 /\ ~trCycles[j].had /\ trCycles[j].pc = "send"
  /\ 0 \notin tracker.discordMessages
  /\ trIntervals = 1
  /\ tracker.isConnected
  /\ trSockets[tracker.ws].st = "open"
  /\ Cardinality(tracker.stockData) = STOCKS_PER_MESSAGE + 1

\* C23: after TokenTrackerService.stop() returns, no publish cycle starts
\* and no message handle is stored in the handle map until the next
\* initialize(), also when stop() is called within the 2 s between the end
\* of initialize() and the start of the interval, and when it is called
\* while a publish cycle is awaiting a sink send.
\* (The handles that a loadExistingMessages still running when stop() was
\* called stores are those of an initialize(), and are not counted.)
C23_StopEndsPublishing ==
  [][trHist.stopped =>
       /\ Len(trCycles') <= Len(trCycles)
       /\ \/ tracker'.discordMessages \subseteq tracker.discordMessages
          \/ \E p \in Procs, n \in 0..1 : TrLoadedMessages(p, n)]_vars

\* the server received on the open socket sock a subscribe frame and,
\* after it, a mode frame for the same tokens
OpenSubscribed(sock) ==
  /\ sock.st = "open"
  /\ \E i, j \in DOMAIN sock.frames :
       /\ i < j
       /\ sock.frames[i].a = "subscribe"
       /\ sock.frames[j].a = "mode"
       /\ sock.frames[j].v = sock.frames[i].v

\* C24: the publish timer of a service is started only after the feed
\* session has reached Open-Subscribed in that initialize(), i.e. after the
\* WebSocket opened and the subscribe and mode frames were sent: when
\* initialize() arms the 2 s timer of startDiscordUpdates, a socket of the
\* service is open and has been sent both frames.
C24_TimerAfterSubscribed ==
  /\ [][tkStartTimers' > tkStartTimers =>
          \E s \in DOMAIN tkSockets' : OpenSubscribed(tkSockets'[s])]_vars
  /\ [][trStartTimers' > trStartTimers =>
          \E s \in DOMAIN trSockets' : OpenSubscribed(trSockets'[s])]_vars

\* C26: after removeStock(s) has returned true for a tracked symbol s, the
\* snapshot holds no entry for s, and none reappears, for instance from a
\* tick that was in flight, until s is added again.
C26_RemovedStaysOut == \A sym \in tkHist.removed : sym \notin ticker.stockData

\* C28: when writing the subscription file fails during subscribeStock or
\* unsubscribeStock, the in-memory registry keeps the change and the command
\* result does not report plain success.
C28_SaveFailureSurfaced ==
  [][tkHist'.commands > tkHist.commands /\ ~tkHist'.written =>
       /\ subscribedStocks' # subscribedStocks
       /\ subsFile' = subsFile
       /\ ~tkHist'.result.success]_vars

\* the packets of the frame that the parser may decode: the declared ones
\* that arrived with their length field and their whole body, as did all
\* before them
Whole(sent) ==
  {k \in 1..Len(sent.lens) : k <= sent.n /\ EndOf(sent.lens, k) <= sent.keep}

\* the length of a packet is the length of one of the four modes
ValidModeLength(length) == length \in {8, 28, 44} \/ length >= 184

\* the packets of the frame whose ticks were returned, by their tokens
Decoded == [i \in DOMAIN parsed.packets |-> parsed.packets[i].instrument_token - 100]

\* C29: parseBinaryTicks produces a tick only for packets whose length is
\* a valid mode length (8, 28, 44, or at least 184 bytes); a packet of any
\* other length yields no tick and decoding continues with the next packet.
C29_InvalidLengthDiscarded ==
  parsed.by # "none" =>
    /\ \A i \in DOMAIN Decoded : ValidModeLength(pbSent.lens[Decoded[i]])
    /\ \A k \in Whole(pbSent) :
         ValidModeLength(pbSent.lens[k]) => Includes(Decoded, k)

\* C30: for any byte buffer parseBinaryTicks returns without an exception:
\* it stops at the first packet whose length field or body is not wholly
\* in the buffer and returns the ticks decoded before it, in order, at most
\* the declared count of them, and none for a buffer of fewer than 2 bytes
\* or a declared count of 0.
C30_ShortBufferHalts ==
  parsed.by # "none" =>
    /\ ~parsed.caught
    /\ \A i \in DOMAIN Decoded : Decoded[i] \in Whole(pbSent)
    /\ \A k \in Whole(pbSent) :
         ValidModeLength(pbSent.lens[k]) => Includes(Decoded, k)
    /\ \A i, j \in DOMAIN Decoded : i < j => Decoded[i] < Decoded[j]
    /\ Len(parsed.packets) <= pbSent.n
    /\ (Len(buffer) < 2 \/ pbSent.n = 0) => parsed.packets = <<>>

\* the ticker's parser returned the one tick of a frame whose second packet
\* lost its last byte
C30_Witness ==
  /\ parsed.by = "ticker"
  /\ pbSent.lens = <<44, 184>>
  /\ pbSent.n = 2
  /\ Len(buffer) = EndOf(pbSent.lens, 2) - 1
  /\ Len(parsed.packets) = 1
  /\ parsed.packets[1].instrument_token = 101
  /\ parsed.packets[1].mode = "quote"

\* the tick that the values of known give for a packet of a mode's length
ExpectedTick(known, length) ==
  [instrument_token |-> known.instrument_token,
   mode |-> IF length = 8 THEN "ltp" ELSE IF length = 44 THEN "quote" ELSE "full",
   last_price |-> Price(known.last_price)]
  @@ (IF length >= 44
      THEN [last_traded_quantity |-> known.quote[2],
            average_traded_price |-> Price(known.quote[3]),
            volume_traded |-> known.quote[4],
            total_buy_quantity |-> known.quote[5],
            total_sell_quantity |-> known.quote[6],
            ohlc |-> [open |-> Price(known.quote[7]),
                      high |-> Price(known.quote[8]),
                      low |-> Price(known.quote[9]),
                      close |-> Price(known.quote[10])],
            change |-> known.last_price - known.quote[10]]
      ELSE <<>>)
  @@ (IF length >= 184
      THEN [last_trade_time |-> known.full[11],
            oi |-> known.full[12],
            oi_day_high |-> known.full[13],
            oi_day_low |-> known.full[14],
            timestamp |-> known.full[15],
            depth |-> [buy |-> [j \in 1..5 |->
                                  [known.levels[j] EXCEPT !.price = Price(@)]],
                       sell |-> [j \in 1..5 |->
                                  [known.levels[j + 5] EXCEPT !.price = Price(@)]]]]
      ELSE <<>>)

\* C31: a one-packet frame of 8, 44 or 184 bytes that encodes known values
\* at the big-endian offsets of the wire format is decoded by
\* TickerService.parseBinaryTicks to exactly one tick with those values and
\* mode ltp, quote or full; only the price is populated for 8 bytes, and the
\* depth of 5 buy and 5 sell levels only for 184 bytes.
C31_DecoderRoundTrip ==
  parsed.by = "ticker" =>
    /\ Len(parsed.packets) = 1
    /\ parsed.packets[1] = ExpectedTick(pbSent.known, pbSent.lens[1])
    /\ pbSent.lens[1] = 8 =>
         DOMAIN parsed.packets[1] = {"instrument_token", "mode", "last_price"}
    /\ "depth" \in DOMAIN parsed.packets[1] <=> pbSent.lens[1] = 184
    /\ pbSent.lens[1] = 184 =>
         /\ Len(parsed.packets[1].depth.buy) = 5
         /\ Len(parsed.packets[1].depth.sell) = 5

\* the ticker's parser decoded a full packet whose values take three bytes
C31_Witness ==
  /\ parsed.by = "ticker"
  /\ pbSent.lens = <<184>>
  /\ Len(buffer) = 188
  /\ parsed.packets[1].instrument_token = 167
  /\ parsed.packets[1].last_price = [units |-> 660, cents |-> 1]
  /\ parsed.packets[1].ohlc.close = [units |-> 10, cents |-> 10]
  /\ parsed.packets[1].change = 66001 - 1010
  /\ parsed.packets[1].depth.sell[5] =
       [quantity |-> 66030, price |-> [units |-> 660, cents |-> 50], orders |-> 76]

\* no value occurs twice in list q
NoDuplicate(q) == \A i, j \in DOMAIN q : q[i] = q[j] => i = j

\* addStock on a symbol that is tracked or not in the catalog changes and
\* sends nothing, and returns true for the first and false for the second
AddStockInert ==
  \A symbol \in Symbols, sendOk \in BOOLEAN :
    \A r \in {AddStock(ticker, tkSockets, symbol, sendOk)} :
      /\ symbol \notin DOMAIN instrumentsCache =>
           r.t = ticker /\ r.socks = tkSockets /\ ~r.paused /\ ~r.returned
      /\ (/\ symbol \in DOMAIN instrumentsCache
          /\ Includes(ticker.subscribedTokens, instrumentsCache[symbol])) =>
           r.t = ticker /\ r.socks = tkSockets /\ ~r.paused /\ r.returned

\* addStock(symbol) is called in this step by subscribeStock, for a catalog
\* symbol that is not tracked, while the service is connected: the token is
\* appended once and the subscribe frame for the single token is sent
AddStockSubscribes(symbol) ==
  (/\ tkHist'.commands = tkHist.commands + 1
   /\ subscribedStocks' = Append(subscribedStocks, symbol)
   /\ symbol \in DOMAIN instrumentsCache
   /\ ticker.isConnected
   /\ ~Includes(ticker.subscribedTokens, instrumentsCache[symbol])) =>
    \A token \in {instrumentsCache[symbol]} :
      /\ ticker'.subscribedTokens = Append(ticker.subscribedTokens, token)
      /\ \E s \in DOMAIN tkSockets \cap DOMAIN tkSockets' :
           tkSockets'[s].frames =
             Append(tkSockets[s].frames, Frame("subscribe", <<token>>))
      /\ token \in tkAddPending'

\* the pause of addStock for token ends in this step while the service is
\* connected: the mode frame for the single token is sent
AddStockSetsMode(token) ==
  (token \in tkAddPending /\ token \notin tkAddPending' /\ ticker.isConnected) =>
    \E s \in DOMAIN tkSockets \cap DOMAIN tkSockets' :
      tkSockets'[s].frames =
        Append(tkSockets[s].frames, Frame("mode", <<token>>))

\* C34: addStock is idempotent.  For a catalog symbol not yet tracked it
\* appends the token once and, when connected, sends subscribe and then mode
\* for that single token; for a tracked symbol it returns true, sends nothing
\* and leaves the list unchanged; for a symbol outside the catalog it returns
\* false and changes nothing.  After any sequence of addStock and removeStock
\* calls the subscribed token list holds no duplicate.
C34_AddStockIdempotent ==
  /\ [](NoDuplicate(ticker.subscribedTokens) /\ AddStockInert)
  /\ [][/\ \A symbol \in Symbols : AddStockSubscribes(symbol)
        /\ \A token \in {101, 102} : AddStockSetsMode(token)]_vars

\* addStock for token 102 has run to its end on the socket that
\* subscribeToStocks had subscribed to token 101
C34_Witness ==
  /\ ticker.subscribedTokens = <<101, 102>>
  /\ tkAddPending = {}
  /\ \E s \in DOMAIN tkSockets :
       /\ Includes(tkSockets[s].frames, Frame("subscribe", <<101>>))
       /\ \E i, j \in DOMAIN tkSockets[s].frames :
            /\ i < j
            /\ tkSockets[s].frames[i] = Frame("subscribe", <<102>>)
            /\ tkSockets[s].frames[j] = Frame("mode", <<102>>)

\* C35: at any time the tracker has at most one open WebSocket feeding the
\* snapshot and at most one active publish interval, for any interleaving
\* of application start-up, start-up credential refresh, scheduled rotation
\* and stop(); a start-up with an invalid credential followed by a
\* successful auto-login initializes the tracker once.
C35_OneFeedOnePublisher ==
  /\ Cardinality({s \in DOMAIN trSockets : trSockets[s].st = "open"}) <= 1
  /\ trIntervals <= 1

\* a performAutoLogin run of process p is in progress
InRun(p) == trProc[p].stage = "auth"

\* C36: at most one performAutoLogin run is in progress at a time: a
\* scheduled trigger that fires while a start-up rotation is still running
\* starts no second, concurrent login and tracker stop/initialize sequence.
C36_OneRunAtATime == ~(InRun("boot") /\ InRun("cron"))

\* the 'message' handler runs in this step on a tick frame that socket s,
\* which stop() has closed, still delivers
ClosingDelivers(s, tok) ==
  /\ tkHist.stopped # "no"
  /\ tkSockets[s].st = "closing"
  /\ tok \in tkSockets[s].ticks
  /\ s \in DOMAIN tkSockets'
  /\ tkSockets'[s] = [tkSockets[s] EXCEPT !.ticks = @ \ {tok}]

\* C37: after stop() has returned, the frames that the closing WebSocket
\* still delivers have no effect: the snapshot stays empty and
\* subscriptionConfirmed stays false until the next initialize().
C37_ClosingFramesInert ==
  [][\A s \in DOMAIN tkSockets, tok \in {101, 102} :
       ClosingDelivers(s, tok) =>
         /\ ticker'.stockData = {}
         /\ ~ticker'.subscriptionConfirmed]_vars

\* check c, which awaits the send of one alert, has another alert to hand to
\* the sink when that send settles
AlertRemaining(c) == AlertSettled(c, TRUE, alertChannel).pc # "done"

\* C38: alerts are delivered in tick order across ticks: every alert of an
\* earlier applied tick is handed to the sink before any alert of a later
\* applied tick, also for two ticks of one token in one frame and when the
\* earlier tick produces two alerts.  (alChecks holds the checks in tick
\* order, and each of them has handed one alert to the sink.)
C38_AlertsInTickOrder ==
  \A i, j \in DOMAIN alChecks : i < j => ~AlertRemaining(alChecks[i])

\* C39: for each page index a new tracker message is sent only when no
\* message for that index is live: no two sends for one page index are in
\* flight together, and none is in flight while the handle map holds a
\* message for its index, so that a slow sink never leads to two tracker
\* messages for the same page.
C39_OneMessagePerPage ==
  \A i \in DOMAIN trCycles :
    trCycles[i].pc = "send" =>
      /\ trCycles[i].idx \notin tracker.discordMessages
      /\ \A j \in DOMAIN trCycles :
           (j # i /\ trCycles[j].pc = "send") => trCycles[j].idx # trCycles[i].idx

\* C33: after a successful rotation, once every tracked token has received
\* a tick and one publish cycle has completed without sink failure, each
\* page index 0..k-1 (k = ceil(N/50)) has a stored handle, and the handle
\* map holds no message of a page index >= k or of another page total.
C33_HandlesMatchPages ==
  (/\ trHist.lastClean
   /\ trCycles = <<>>
   /\ tracker.mapped \subseteq tracker.stockData) =>
    tracker.discordMessages =
      0..(ChunkCount(Cardinality(tracker.stockData)) - 1)

\* a heartbeat, a JSON text, and a message whose decompression fails
ControlFrames == {Heartbeat, JsonText, BadZlib}

\* C32: a heartbeat frame, a parsable JSON text frame and a frame whose
\* zlib decompression fails each leave the snapshot, the tick counter and
\* the alert output unchanged, in both services, and a tick frame received
\* after one of them is processed as usual.
C32_ControlFramesInert ==
  /\ [][(/\ buffer' \in ControlFrames
          /\ <<buffer', parsed', now'>> # <<buffer, parsed, now>>) =>
          /\ stockData' = stockData
          /\ alHist'.ticks = alHist.ticks
          /\ alChecks' = alChecks
          /\ ticker' = ticker]_vars
  /\ [][(buffer \in ControlFrames /\ buffer' = QuoteFrame(9700, 20)) =>
          IF parsed'.by = "tracker"
          THEN /\ alHist'.ticks = alHist.ticks + 1
               /\ 101 \in DOMAIN stockData'
               /\ stockData'[101] = [last_price |-> 9700, volume |-> 20,
                                     timestamp |-> now']
          ELSE /\ "NSE:A" \in ticker'.stockData
               /\ ticker'.subscriptionConfirmed]_vars

\* the tracker has received three messages of which two were tick frames,
\* and the second tick raised an alert: the first message was no tick frame
C32_Witness ==
  /\ buffer = QuoteFrame(9700, 20)
  /\ parsed.by = "tracker"
  /\ now = 3 * TIME_WINDOW
  /\ alHist.ticks = 2
  /\ alChecks # <<>>
  /\ stockData[101].last_price = 9700
  /\ ticker.stockData = {}

\* no command is under way and the ticker is connected on a socket whose
\* caller has finished subscribing
CommandsSettled ==
  /\ tkAddPending = {}
  /\ tkHist.commands > 0
  /\ ticker.isConnected
  /\ ticker.ws # 0
  /\ tkSockets[ticker.ws].st = "open"
  /\ tkSockets[ticker.ws].pc = "done"

\* C27: after a sequence of subscribeStock / unsubscribeStock commands has
\* completed, the ticker's token list holds the tokens of the registry
\* symbols found in the catalog and the snapshot holds no entry for a symbol
\* absent from the registry, also when a command was issued while the
\* ticker was disconnected and the ticker reconnected later.
C27_RegistryFansOut ==
  CommandsSettled =>
    /\ Range(ticker.subscribedTokens) = Range(FileTokens(subscribedStocks))
    /\ \A sym \in ticker.stockData : Includes(subscribedStocks, sym)

\* every mode frame the server received on sock comes after a subscribe
\* frame for the same token list
ModeFollowsSubscribe(sock) ==
  \A j \in DOMAIN sock.frames :
    sock.frames[j].a = "mode" =>
      \E i \in 1..(j - 1) :
        sock.frames[i].a = "subscribe" /\ sock.frames[i].v = sock.frames[j].v

\* C25: every mode frame a service sends is preceded by a subscribe frame
\* carrying the same token list, sent earlier on the same WebSocket
\* connection, also when the connection closes or is replaced during the
\* pause between the two frames.
C25_ModeFollowsSubscribe ==
  /\ \A s \in DOMAIN tkSockets : ModeFollowsSubscribe(tkSockets[s])
  /\ \A s \in DOMAIN trSockets : ModeFollowsSubscribe(trSockets[s])

\* cycle i is at a send or an edit, which settles in this step
Settles(i, pc, ok) == trCycles[i].pc = pc /\ TrCycleStep(i, ok)

\* C19: in a publish cycle every page i gets one operation: with no handle
\* stored for i exactly one send, whose handle is stored under i; with a
\* handle stored exactly one edit and no send; a failed edit removes the
\* handle of i, so that the next cycle sends a new message for page i.  A
\* cycle that follows a fully successful cycle, the snapshot being the
\* same, performs edits only.
C19_SendOrEdit ==
  /\ [](\A c \in Range(trCycles) :
          /\ c.pc = "send" => ~c.had
          /\ c.pc = "edit" => c.had
          /\ c.idx \in 0..(c.n - 1)
          /\ c.follows => c.pc = "edit")
  /\ [][\A i \in DOMAIN trCycles :
          LET c == trCycles[i] IN
          /\ Settles(i, "send", TRUE) =>
               /\ c.idx \in tracker'.discordMessages
               /\ trCycles'[i] = [c EXCEPT !.pc = "spacer"]
          /\ Settles(i, "edit", TRUE) =>
               tracker'.discordMessages = tracker.discordMessages
          /\ Settles(i, "edit", FALSE) =>
               tracker'.discordMessages = tracker.discordMessages \ {c.idx}
          /\ (Settles(i, "edit", TRUE) \/ Settles(i, "edit", FALSE)
                \/ Settles(i, "spacer", TRUE)) =>
               IF c.idx + 1 < c.n
               THEN /\ Len(trCycles') = Len(trCycles)
                    /\ trCycles'[i].idx = c.idx + 1
               ELSE Len(trCycles') = Len(trCycles) - 1]_vars

====
